---- MODULE Spec2Model ----
(***************************************************************************)
(* The lenient JSON decoder of //base: decode_json (json_parser.rs) driving *)
(* the serde visitor ValueVisitor (values_deserialization.rs) that builds a *)
(* base::Value tree through the handles of values.rs.                       *)
(*                                                                          *)
(* A decode call is a recursive descent; it is modelled here as a machine   *)
(* with an explicit stack of open containers, one step per visitor event.   *)
(* Several calls (Calls) exist side by side, each with its own input,      *)
(* options, tokenizer position, guard chain and sink.                       *)
(***************************************************************************)
EXTENDS Integers, Sequences, FiniteSets, TLC

(***************************************************************************)
(* Bounds of the model.                                                     *)
(***************************************************************************)
\* largest finite max_depth option explored
MaxDepth == 4
\* deepest generated nesting of containers
MaxNest == 5
\* longest input of the exhaustive byte family
MaxLen == 3

\* calls of the values API made on one slot
MaxOps == 4

\* deepest nesting of the inputs that go beyond the tokenizer's own limit
MaxDeep == 130

(***************************************************************************)
(* Bytes.  An input is a sequence of byte values.                           *)
(***************************************************************************)
Ch == [ sp |-> 32, nl |-> 10, tab |-> 9, cr |-> 13, quote |-> 34, star |-> 42, comma |-> 44,
        minus |-> 45, dot |-> 46, slash |-> 47, colon |-> 58, lbrack |-> 91,
        backslash |-> 92, lparen |-> 40, rparen |-> 41, m |-> 109, p |-> 112, y |-> 121,
        v |-> 118, bs |-> 8, ff |-> 12, vt |-> 11,
        rbrack |-> 93, lbrace |-> 123, rbrace |-> 125,
        a |-> 97, b |-> 98, c |-> 99, e |-> 101, f |-> 102, l |-> 108,
        n |-> 110, r |-> 114, s |-> 115, t |-> 116, u |-> 117,
        d0 |-> 48, d9 |-> 57 ]

\* UTF8 byte order mark.
UTF8_BOM == <<239, 187, 191>>

Digit(k) == Ch.d0 + k
IsDigit(b) == b >= Ch.d0 /\ b <= Ch.d9

(***************************************************************************)
(* usize.  A usize value u is held as the integer of the window             *)
(* -2^31 < v < 2^31 congruent to u modulo 2^64: v >= 0 stands for v and     *)
(* v < 0 for 2^64 + v (so -1 is usize::MAX).  An operation whose exact      *)
(* result leaves 0 .. 2^64-1 panics in a build with overflow checks and     *)
(* wraps in one without.                                                    *)
(***************************************************************************)
UsizeMax == 0 - 1

\* a - b on usize: the wrapped value and whether the exact result is negative
UsizeSub(a, b) == [val |-> a - b, overflow |-> (a >= 0 /\ a - b < 0)]

\* a + b on usize
UsizeAdd(a, b) == [val |-> a + b, overflow |-> (a < 0 /\ a + b >= 0)]

\* usize::checked_sub(1): "none" when the value is 0
CheckedSub1(a) == IF a = 0 THEN [some |-> FALSE, val |-> 0]
                           ELSE [some |-> TRUE, val |-> a - 1]

(***************************************************************************)
(* Options.                                                                 *)
(***************************************************************************)
JsonOptions(tc, ric, com, ctl, vt, xe, md) ==
    [ allow_trailing_commas |-> tc, replace_invalid_characters |-> ric,
      allow_comments |-> com, allow_control_chars |-> ctl,
      allow_vert_tab |-> vt, allow_x_escapes |-> xe, max_depth |-> md ]

\* a constructor that raises a max_depth below 2 to 2
with_chromium_extensions_validating(max_depth) ==
    JsonOptions(FALSE, FALSE, TRUE, TRUE, TRUE, TRUE,
                IF max_depth >= 0 /\ max_depth < 2 THEN 2 ELSE max_depth)

with_chromium_extensions(max_depth) ==
    JsonOptions(FALSE, FALSE, TRUE, TRUE, TRUE, TRUE, max_depth)

\* the option set of test_decode_json
TestOptions == JsonOptions(FALSE, FALSE, FALSE, FALSE, FALSE, FALSE, 128)

(***************************************************************************)
(* 64-bit integers and doubles.  The model checker's integers are 32 bits   *)
(* wide, so the magnitude of an i64/u64 is held as four 16-bit limbs,       *)
(* least significant first, with a sign; a double holding an integer value  *)
(* has five limbs (2^64 is a double) and is `huge` above that; frac holds   *)
(* the decimal digits of its fraction, none for an integer value.           *)
(***************************************************************************)
Base == 2 ^ 16
Half == 2 ^ 15

Zero4 == <<0, 0, 0, 0>>

\* m * 10 + d on limbs, with the carry out of the top limb
RECURSIVE MulAdd10Limbs(_, _, _)
MulAdd10Limbs(m, i, carry) ==
    IF i > Len(m) THEN [mag |-> <<>>, carry |-> carry]
    ELSE LET t == m[i] * 10 + carry
             rest == MulAdd10Limbs(m, i + 1, t \div Base)
         IN [mag |-> <<t % Base>> \o rest.mag, carry |-> rest.carry]

MulAdd10(m, d) == MulAdd10Limbs(m, 1, d)

\* number of significant bits of a limb
BitLenLimb(x) == CHOOSE k \in 0..16 : x < 2 ^ k /\ (k = 0 \/ x >= 2 ^ (k - 1))

\* number of significant bits of a magnitude
BitLen(m) ==
    IF m[4] # 0 THEN 48 + BitLenLimb(m[4])
    ELSE IF m[3] # 0 THEN 32 + BitLenLimb(m[3])
    ELSE IF m[2] # 0 THEN 16 + BitLenLimb(m[2])
    ELSE BitLenLimb(m[1])

\* m + x * 2^(16 (i-1)) on limbs, growing by a limb when the carry leaves
RECURSIVE AddAt(_, _, _)
AddAt(m, i, x) ==
    IF x = 0 THEN m
    ELSE IF i > Len(m) THEN Append(m, x)
    ELSE LET t == m[i] + x
         IN AddAt([m EXCEPT ![i] = t % Base], i + 1, t \div Base)

\* i32::try_from of a 64-bit integer succeeds
FitsI32(neg, m) ==
    /\ m[3] = 0
    /\ m[4] = 0
    /\ \/ m[2] < Half
       \/ neg /\ m[2] = Half /\ m[1] = 0

\* the i32 of a 64-bit integer that fits
ToI32(neg, m) == IF neg THEN (0 - m[2]) * Base - m[1] ELSE m[2] * Base + m[1]

\* `value as f64` of a 64-bit integer: the nearest double, ties to even
\* (53 significant bits)
AsF64(neg, m) ==
    LET len == BitLen(m)
        shift == len - 53
    IN IF shift <= 0
       THEN [neg |-> neg, mag |-> Append(m, 0), huge |-> FALSE, frac |-> <<>>]
       ELSE LET unit == 2 ^ shift
                low == m[1] % unit
                kept == m[1] - low
                odd == (m[1] \div unit) % 2 = 1
                up == low > unit \div 2 \/ (low = unit \div 2 /\ odd)
                cleared == Append([m EXCEPT ![1] = kept], 0)
                r == IF up THEN AddAt(cleared, 1, unit) ELSE cleared
            IN [neg |-> neg, mag |-> SubSeq(r, 1, 5), huge |-> FALSE, frac |-> <<>>]

NoDouble == [neg |-> FALSE, mag |-> <<0, 0, 0, 0, 0>>, huge |-> FALSE, frac |-> <<>>]

(***************************************************************************)
(* The sink: a base::Value tree.  Every node has the same fields; t is one  *)
(* of unset, none, bool, integer, double, string, dict, list.  A dict holds *)
(* its keys and, at the same indices, its children; a list its children.    *)
(* A handle (DictValueRef, ListValueRef) is the path of child indices from  *)
(* the slot to the container.                                               *)
(***************************************************************************)
Node(t, b, n, d, s) ==
    [t |-> t, b |-> b, n |-> n, d |-> d, s |-> s, keys |-> <<>>, kids |-> <<>>]

Unset == Node("unset", FALSE, 0, NoDouble, <<>>)
NoneValue == Node("none", FALSE, 0, NoDouble, <<>>)
BoolValue(b) == Node("bool", b, 0, NoDouble, <<>>)
IntegerValue(n) == Node("integer", FALSE, n, NoDouble, <<>>)
DoubleValue(d) == Node("double", FALSE, 0, d, <<>>)
StringValue(s) == Node("string", FALSE, 0, NoDouble, s)
DictValue == Node("dict", FALSE, 0, NoDouble, <<>>)
ListValue == Node("list", FALSE, 0, NoDouble, <<>>)

\* the node a handle refers to
\* (a long path is followed by halves: to the node halfway, then on from
\* there; a node without children has nothing below it)
RECURSIVE NodeAt(_, _)
NodeAt(tree, path) ==
    IF path = <<>> THEN tree
    ELSE IF Len(path) = 1 THEN tree.kids[path[1]]
    ELSE LET half == Len(path) \div 2
             mid == NodeAt(tree, SubSeq(path, 1, half))
         IN IF mid.kids = <<>> THEN Unset
            ELSE NodeAt(mid, SubSeq(path, half + 1, Len(path)))

\* index of a key in a dict's keys, 0 when absent
KeyIndex(keys, key) ==
    IF \E i \in 1..Len(keys) : keys[i] = key
    THEN CHOOSE i \in 1..Len(keys) : keys[i] = key
    ELSE 0

\* ValueAppend*: the list with one more child at its end
\* an append that puts the element in front
AppendChildFront(list, node) == [list EXCEPT !.kids = <<node>> \o @]

AppendChild(list, node) == [list EXCEPT !.kids = Append(@, node)]

\* byte strings in ascending order (the order of the dict's keys, as the
\* dump of test_set_dict shows it)
RECURSIVE KeyLess(_, _)
KeyLess(a, b) ==
    IF b = <<>> THEN FALSE
    ELSE IF a = <<>> THEN TRUE
    ELSE IF Head(a) # Head(b) THEN Head(a) < Head(b)
    ELSE KeyLess(Tail(a), Tail(b))

\* the place of a key among a dict's keys: the number of keys below it, plus 1
KeyPlace(keys, key) == Cardinality({i \in 1..Len(keys) : KeyLess(keys[i], key)}) + 1

\* s with x put in at index i
InsertAt(s, i, x) == SubSeq(s, 1, i - 1) \o <<x>> \o SubSeq(s, i, Len(s))

\* a dict that keeps its keys in the order of the set_*_key calls
SetKeyInCallOrder(dict, key, node) ==
    LET i == KeyIndex(dict.keys, key)
    IN IF i = 0
       THEN [dict EXCEPT !.keys = Append(@, key), !.kids = Append(@, node)]
       ELSE [dict EXCEPT !.kids[i] = node]

\* ValueSet*Key: the dict with the key's child replaced, or with a new key
\* put in at its place in the order of the keys
SetKey(dict, key, node) ==
    LET i == KeyIndex(dict.keys, key)
        at == KeyPlace(dict.keys, key)
    IN IF i = 0
       THEN [dict EXCEPT !.keys = InsertAt(@, at, key), !.kids = InsertAt(@, at, node)]
       ELSE [dict EXCEPT !.kids[i] = node]

\* the tree with the container at `path` replaced by f(container)
RECURSIVE UpdateAt(_, _, _)
UpdateAt(tree, path, new) ==
    IF path = <<>> THEN new
    ELSE IF Len(path) = 1 THEN [tree EXCEPT !.kids[path[1]] = new]
    ELSE LET half == Len(path) \div 2
             front == SubSeq(path, 1, half)
             mid == NodeAt(tree, front)
             inner == UpdateAt(mid, SubSeq(path, half + 1, Len(path)), new)
         IN IF mid = inner THEN tree ELSE UpdateAt(tree, front, inner)

(***************************************************************************)
(* The debug dump of a slot (DumpValueSlot): pretty-printed JSON, in the    *)
(* format that the tests of values.rs expect; "(empty)" for an unset slot.  *)
(* A double of 10^12 or more is printed in exponent notation by the writer, *)
(* which is not modelled: such trees are not dumped.                        *)
(***************************************************************************)
\* the decimal digits of a natural number
RECURSIVE NatDigits(_)
NatDigits(n) ==
    IF n < 10 THEN <<Ch.d0 + n>> ELSE Append(NatDigits(n \div 10), Ch.d0 + (n % 10))

\* an i32 in decimal
IntBytes(n) ==
    IF n >= 0 THEN NatDigits(n)
    ELSE LET last == (10 - (n % 10)) % 10
             rest == 0 - ((n + last) \div 10)
         IN <<Ch.minus>> \o (IF rest = 0 THEN <<>> ELSE NatDigits(rest))
            \o <<Ch.d0 + last>>

\* limbs divided by ten, from the top limb down: quotient and remainder
RECURSIVE DivMod10(_, _, _)
DivMod10(m, i, rem) ==
    IF i = 0 THEN [mag |-> m, rem |-> rem]
    ELSE LET t == rem * Base + m[i]
         IN DivMod10([m EXCEPT ![i] = t \div 10], i - 1, t % 10)

\* the decimal digits of a magnitude
RECURSIVE MagDigits(_)
MagDigits(m) ==
    LET r == DivMod10(m, Len(m), 0)
    IN IF \A i \in 1..Len(m) : r.mag[i] = 0 THEN <<Ch.d0 + r.rem>>
       ELSE Append(MagDigits(r.mag), Ch.d0 + r.rem)

\* a double: its integer digits, a point and its fraction digits, .0 for an
\* integer value
DoubleBytes(d) ==
    (IF d.neg THEN <<Ch.minus>> ELSE <<>>) \o MagDigits(d.mag) \o <<Ch.dot>>
    \o (IF d.frac = <<>> THEN <<Ch.d0>> ELSE [i \in 1..Len(d.frac) |-> Ch.d0 + d.frac[i]])

\* a string between quotes, with its escapes
RECURSIVE EscapeJSONString(_)
EscapeJSONString(str) ==
    IF str = <<>> THEN <<>>
    ELSE LET x == Head(str)
             out == IF x = Ch.quote \/ x = Ch.backslash THEN <<Ch.backslash, x>>
                    ELSE IF x = Ch.bs THEN <<Ch.backslash, Ch.b>>
                    ELSE IF x = Ch.ff THEN <<Ch.backslash, Ch.f>>
                    ELSE IF x = Ch.nl THEN <<Ch.backslash, Ch.n>>
                    ELSE IF x = Ch.cr THEN <<Ch.backslash, Ch.r>>
                    ELSE IF x = Ch.tab THEN <<Ch.backslash, Ch.t>>
                    ELSE <<x>>
         IN out \o EscapeJSONString(Tail(str))

StringBytes(str) == <<Ch.quote>> \o EscapeJSONString(str) \o <<Ch.quote>>

\* three spaces for every level of dict
RECURSIVE IndentLine(_)
IndentLine(depth) ==
    IF depth = 0 THEN <<>> ELSE <<Ch.sp, Ch.sp, Ch.sp>> \o IndentLine(depth - 1)

\* the dump of a node; a dict's members are a level deeper, a list's are not
RECURSIVE DumpNode(_, _)
RECURSIVE DumpList(_, _, _)
RECURSIVE DumpDict(_, _, _)
DumpNode(node, depth) ==
    IF node.t = "unset"
    THEN <<Ch.lparen, Ch.e, Ch.m, Ch.p, Ch.t, Ch.y, Ch.rparen>>
    ELSE IF node.t = "none" THEN <<Ch.n, Ch.u, Ch.l, Ch.l>>
    ELSE IF node.t = "bool"
    THEN IF node.b THEN <<Ch.t, Ch.r, Ch.u, Ch.e>> ELSE <<Ch.f, Ch.a, Ch.l, Ch.s, Ch.e>>
    ELSE IF node.t = "integer" THEN IntBytes(node.n)
    ELSE IF node.t = "double" THEN DoubleBytes(node.d)
    ELSE IF node.t = "string" THEN StringBytes(node.s)
    ELSE IF node.t = "list"
    THEN <<Ch.lbrack, Ch.sp>> \o DumpList(node.kids, 1, depth) \o <<Ch.sp, Ch.rbrack>>
    ELSE <<Ch.lbrace, Ch.nl>> \o DumpDict(node, 1, depth)
         \o IndentLine(depth) \o <<Ch.rbrace>>

DumpList(kids, i, depth) ==
    IF i > Len(kids) THEN <<>>
    ELSE DumpNode(kids[i], depth)
         \o (IF i < Len(kids) THEN <<Ch.comma, Ch.sp>> ELSE <<>>)
         \o DumpList(kids, i + 1, depth)

DumpDict(node, i, depth) ==
    IF i > Len(node.keys) THEN <<>>
    ELSE IndentLine(depth + 1) \o StringBytes(node.keys[i]) \o <<Ch.colon, Ch.sp>>
         \o DumpNode(node.kids[i], depth + 1)
         \o (IF i < Len(node.keys) THEN <<Ch.comma, Ch.nl>> ELSE <<Ch.nl>>)
         \o DumpDict(node, i + 1, depth)

\* format!("{:?}", slot)
Dump(tree) == DumpNode(tree, 0) \o <<Ch.nl>>

(***************************************************************************)
(* DeserializationTarget: where the value about to be built is placed.      *)
(* NewValue is the slot; List and Dict carry the handle of the container    *)
(* in progress, Dict also the pending key.                                  *)
(***************************************************************************)
NewValue == [kind |-> "NewValue", path |-> <<>>, key |-> <<>>]
\* a List target that is bound to the slot's list whatever list is open
ListOfSlot(path) == [kind |-> "List", path |-> <<>>, key |-> <<>>]
List(path) == [kind |-> "List", path |-> path, key |-> <<>>]
Dict(path, key) == [kind |-> "Dict", path |-> path, key |-> key]

\* the match on self.container of every visit_*: construct_* in the slot,
\* append_* to the list, set_*_key in the dict
\* a construct_* that keeps the entries of a container of the same type
PlaceKeeping(tree, target, node) ==
    IF target.kind = "NewValue"
    THEN IF tree.t = node.t THEN tree ELSE node
    ELSE IF target.kind = "List"
    THEN UpdateAt(tree, target.path, AppendChild(NodeAt(tree, target.path), node))
    ELSE UpdateAt(tree, target.path,
                  SetKey(NodeAt(tree, target.path), target.key, node))

Place(tree, target, node) ==
    IF target.kind = "NewValue" THEN node
    ELSE IF target.kind = "List"
    THEN UpdateAt(tree, target.path, AppendChild(NodeAt(tree, target.path), node))
    ELSE UpdateAt(tree, target.path,
                  SetKey(NodeAt(tree, target.path), target.key, node))

\* the handle of the container that Place is about to put into the target
\* (computed on the tree before the write)
PlacedHandle(tree, target) ==
    IF target.kind = "NewValue" THEN <<>>
    ELSE IF target.kind = "List"
    THEN Append(target.path, Len(NodeAt(tree, target.path).kids) + 1)
    ELSE LET d == NodeAt(tree, target.path)
             i == KeyIndex(d.keys, target.key)
         IN Append(target.path, IF i = 0 THEN KeyPlace(d.keys, target.key) ELSE i)

\* one entry of the record of sink operations a call has issued
SinkOp(target, node) == [target |-> target, node |-> node]

(***************************************************************************)
(* The tokenizer (serde_json_lenient's Deserializer over a SliceRead).      *)
(* b is the byte slice, i the number of bytes consumed.  Inputs keep bytes  *)
(* above 0x7f and the escapes \u and \x out of string literals and          *)
(* exponents (e E) out of number literals, so UTF-8 validation, hexadecimal *)
(* escapes and exponent parsing are not modelled.                           *)
(***************************************************************************)
EOF == 0 - 1

\* the tokenizer's own nesting limit unless disabled: remaining_depth starts
\* at this number, every container entered takes one off, and the container
\* that brings it to zero is refused
TokenizerDepthLimit == 128

peek(b, i) == IF i < Len(b) THEN b[i + 1] ELSE EOF

NoError == [msg |-> "", line |-> 0, column |-> 0]

\* the number of newlines among b[lo..hi], and the index of the last of them
\* (0 when there is none), by halves
RECURSIVE CountNewlines(_, _, _)
CountNewlines(b, lo, hi) ==
    IF lo > hi THEN 0
    ELSE IF lo = hi THEN (IF b[lo] = Ch.nl THEN 1 ELSE 0)
    ELSE CountNewlines(b, lo, (lo + hi) \div 2)
         + CountNewlines(b, (lo + hi) \div 2 + 1, hi)

RECURSIVE LastNewline(_, _, _)
LastNewline(b, lo, hi) ==
    IF lo > hi THEN 0
    ELSE IF lo = hi THEN (IF b[lo] = Ch.nl THEN lo ELSE 0)
    ELSE LET right == LastNewline(b, (lo + hi) \div 2 + 1, hi)
         IN IF right # 0 THEN right ELSE LastNewline(b, lo, (lo + hi) \div 2)

\* SliceRead::position_of_index: 1-based line, bytes since the last newline
position_of_index(b, i) ==
    [line |-> CountNewlines(b, 1, i) + 1, column |-> i - LastNewline(b, 1, i)]

\* Deserializer::error: at the bytes consumed
error(b, i, msg) ==
    LET p == position_of_index(b, i)
    IN [msg |-> msg, line |-> p.line, column |-> p.column]

\* Deserializer::peek_error: at the byte peeked
peek_error(b, i, msg) == error(b, IF i + 1 <= Len(b) THEN i + 1 ELSE Len(b), msg)

\* serde::de::Error::custom: a message without a position
custom(msg) == [msg |-> msg, line |-> 0, column |-> 0]

\* Deserializer::fix_position: a positionless error takes the current position
fix_position(err, b, i) == IF err.line = 0 THEN error(b, i, err.msg) ELSE err

\* first index at or after i whose byte is a newline, or the end
RECURSIVE LineEnd(_, _)
LineEnd(b, i) ==
    IF i >= Len(b) \/ b[i + 1] = Ch.nl THEN i ELSE LineEnd(b, i + 1)

\* bytes consumed after the */ that closes a block comment, EOF if none does
RECURSIVE BlockEnd(_, _)
BlockEnd(b, i) ==
    IF i + 1 >= Len(b) THEN EOF
    ELSE IF b[i + 1] = Ch.star /\ b[i + 2] = Ch.slash THEN i + 2
    ELSE BlockEnd(b, i + 1)

\* Deserializer::parse_whitespace: skips blanks and, when allowed, comments
RECURSIVE parse_whitespace(_, _, _)
parse_whitespace(b, i, cfg) ==
    LET p == peek(b, i)
    IN IF p = Ch.sp \/ p = Ch.nl \/ p = Ch.tab \/ p = Ch.cr
       THEN parse_whitespace(b, i + 1, cfg)
       ELSE IF p = Ch.slash /\ cfg.allow_comments
       THEN LET q == peek(b, i + 1)
            IN IF q = Ch.slash THEN parse_whitespace(b, LineEnd(b, i + 2), cfg)
               ELSE IF q = Ch.star
               THEN LET e == BlockEnd(b, i + 2)
                    IN IF e = EOF
                       THEN [i |-> Len(b),
                             err |-> error(b, Len(b), "EOF while parsing a block comment")]
                       ELSE parse_whitespace(b, e, cfg)
               ELSE [i |-> i + 1,
                     err |-> peek_error(b, i + 1, "expected comment slash or star")]
       ELSE [i |-> i, err |-> NoError]

\* Deserializer::parse_ident: the rest of null, true or false
RECURSIVE parse_ident(_, _, _)
parse_ident(b, i, ident) ==
    IF ident = <<>> THEN [i |-> i, err |-> NoError]
    ELSE IF peek(b, i) = EOF
    THEN [i |-> i, err |-> error(b, i, "EOF while parsing a value")]
    ELSE IF peek(b, i) # Head(ident)
    THEN [i |-> i + 1, err |-> error(b, i + 1, "expected ident")]
    ELSE parse_ident(b, i + 1, Tail(ident))

\* parse_escape: the byte that the character after a backslash stands for,
\* EOF when it is no escape
Escaped(x, cfg) ==
    IF x = Ch.quote \/ x = Ch.backslash \/ x = Ch.slash THEN x
    ELSE IF x = Ch.b THEN Ch.bs
    ELSE IF x = Ch.f THEN Ch.ff
    ELSE IF x = Ch.n THEN Ch.nl
    ELSE IF x = Ch.r THEN Ch.cr
    ELSE IF x = Ch.t THEN Ch.tab
    ELSE IF x = Ch.v /\ cfg.allow_v_escapes THEN Ch.vt
    ELSE EOF

\* SliceRead::parse_str: the bytes up to the closing quote
RECURSIVE parse_str(_, _, _, _)
parse_str(b, i, cfg, acc) ==
    LET p == peek(b, i)
    IN IF p = EOF
       THEN [i |-> i, err |-> error(b, i, "EOF while parsing a string"), s |-> acc]
       ELSE IF p = Ch.quote THEN [i |-> i + 1, err |-> NoError, s |-> acc]
       ELSE IF p = Ch.backslash
       THEN IF peek(b, i + 1) = EOF
            THEN [i |-> i + 1, s |-> acc,
                  err |-> error(b, i + 1, "EOF while parsing a string")]
            ELSE IF Escaped(peek(b, i + 1), cfg) = EOF
            THEN [i |-> i + 2, s |-> acc, err |-> error(b, i + 2, "invalid escape")]
            ELSE parse_str(b, i + 2, cfg, Append(acc, Escaped(peek(b, i + 1), cfg)))
       ELSE IF p < Ch.sp /\ ~cfg.allow_control_chars_in_string
       THEN [i |-> i + 1, s |-> acc,
             err |-> error(b, i + 1, "control character while parsing a string")]
       ELSE parse_str(b, i + 1, cfg, Append(acc, p))

\* the digits of an integer literal accumulated into a u64; over is set once
\* the value has left the u64 range
RECURSIVE parse_digits(_, _, _, _)
parse_digits(b, i, m, over) ==
    IF IsDigit(peek(b, i))
    THEN LET r == MulAdd10(m, peek(b, i) - Ch.d0)
         IN parse_digits(b, i + 1, r.mag, over \/ r.carry # 0)
    ELSE [i |-> i, mag |-> m, over |-> over]

\* the digits that follow at i
RECURSIVE DigitsAt(_, _)
DigitsAt(b, i) ==
    IF IsDigit(peek(b, i)) THEN <<peek(b, i) - Ch.d0>> \o DigitsAt(b, i + 1) ELSE <<>>

\* digits without their trailing zeros
RECURSIVE StripZeros(_)
StripZeros(ds) ==
    IF ds # <<>> /\ ds[Len(ds)] = 0 THEN StripZeros(SubSeq(ds, 1, Len(ds) - 1))
    ELSE ds

\* what the tokenizer hands to the visitor for one value: the event kind, the
\* bytes consumed after it, and the payload of the event
Event(kind, i, err, bv, neg, mag, d, str) ==
    [kind |-> kind, i |-> i, err |-> err, b |-> bv, neg |-> neg, mag |-> mag,
     d |-> d, s |-> str]

ErrorEvent(i, err) == Event("error", i, err, FALSE, FALSE, Zero4, NoDouble, <<>>)

\* a magnitude above 2^63
Above2p63(m) == m[4] > Half \/ (m[4] = Half /\ (m[1] # 0 \/ m[2] # 0 \/ m[3] # 0))

\* Deserializer::parse_any_number and ParserNumber::visit: a literal that fits
\* u64 is a u64 event when positive; when negative it is an i64 event if it
\* is nonzero and fits i64, and an f64 event otherwise; with a decimal point
\* it is an f64 event
parse_any_number(b, i, positive) ==
    LET p == peek(b, i)
    IN IF p = EOF THEN ErrorEvent(i, error(b, i, "EOF while parsing a value"))
       ELSE IF ~IsDigit(p) THEN ErrorEvent(i + 1, error(b, i + 1, "invalid number"))
       ELSE IF p = Ch.d0 /\ IsDigit(peek(b, i + 1))
       THEN ErrorEvent(i + 1, peek_error(b, i + 1, "invalid number"))
       ELSE LET r == parse_digits(b, i, Zero4, FALSE)
                huge == [neg |-> ~positive, mag |-> <<0, 0, 0, 0, 0>>, huge |-> TRUE, frac |-> <<>>]
                ds == DigitsAt(b, r.i + 1)
            IN IF r.over
               THEN Event("f64", r.i, NoError, FALSE, FALSE, Zero4, huge, <<>>)
               ELSE IF peek(b, r.i) = Ch.dot
               THEN IF ds = <<>>
                    THEN ErrorEvent(r.i + 1, peek_error(b, r.i + 1, "invalid number"))
                    ELSE Event("f64", r.i + 1 + Len(ds), NoError, FALSE, FALSE, Zero4,
                               [AsF64(~positive, r.mag) EXCEPT !.frac = StripZeros(ds)],
                               <<>>)
               ELSE IF positive
               THEN Event("u64", r.i, NoError, FALSE, FALSE, r.mag, NoDouble, <<>>)
               ELSE IF r.mag = Zero4 \/ Above2p63(r.mag)
               THEN Event("f64", r.i, NoError, FALSE, FALSE, Zero4,
                          AsF64(TRUE, r.mag), <<>>)
               ELSE Event("i64", r.i, NoError, FALSE, TRUE, r.mag, NoDouble, <<>>)

\* Deserializer::deserialize_any up to the visitor call: skip whitespace, peek
\* and parse the scalar, or eat the bracket that opens a container
deserialize_any(b, i0, cfg, depth) ==
    LET w == parse_whitespace(b, i0, cfg)
        i == w.i
        p == peek(b, i)
    IN IF w.err # NoError THEN ErrorEvent(i, w.err)
       ELSE IF p = EOF THEN ErrorEvent(i, peek_error(b, i, "EOF while parsing a value"))
       ELSE IF p = Ch.n
       THEN LET r == parse_ident(b, i + 1, <<Ch.u, Ch.l, Ch.l>>)
            IN IF r.err # NoError THEN ErrorEvent(r.i, r.err)
               ELSE Event("unit", r.i, NoError, FALSE, FALSE, Zero4, NoDouble, <<>>)
       ELSE IF p = Ch.t
       THEN LET r == parse_ident(b, i + 1, <<Ch.r, Ch.u, Ch.e>>)
            IN IF r.err # NoError THEN ErrorEvent(r.i, r.err)
               ELSE Event("bool", r.i, NoError, TRUE, FALSE, Zero4, NoDouble, <<>>)
       ELSE IF p = Ch.f
       THEN LET r == parse_ident(b, i + 1, <<Ch.a, Ch.l, Ch.s, Ch.e>>)
            IN IF r.err # NoError THEN ErrorEvent(r.i, r.err)
               ELSE Event("bool", r.i, NoError, FALSE, FALSE, Zero4, NoDouble, <<>>)
       ELSE IF p = Ch.minus THEN parse_any_number(b, i + 1, FALSE)
       ELSE IF IsDigit(p) THEN parse_any_number(b, i, TRUE)
       ELSE IF p = Ch.quote
       THEN LET r == parse_str(b, i + 1, cfg, <<>>)
            IN IF r.err # NoError THEN ErrorEvent(r.i, r.err)
               ELSE Event("str", r.i, NoError, FALSE, FALSE, Zero4, NoDouble, r.s)
       ELSE IF p = Ch.lbrack \/ p = Ch.lbrace
       THEN IF ~cfg.recursion_limit_disabled /\ depth + 1 >= TokenizerDepthLimit
            THEN ErrorEvent(i, peek_error(b, i, "recursion limit exceeded"))
            ELSE Event(IF p = Ch.lbrack THEN "seq" ELSE "map", i + 1, NoError,
                       FALSE, FALSE, Zero4, NoDouble, <<>>)
       ELSE ErrorEvent(i, peek_error(b, i, "expected value"))

\* SeqAccess::next_element_seed up to the element's deserialize: "none" at the
\* closing bracket, "some" with the element's first byte next, or an error
next_element_seed(b, i0, cfg, first) ==
    LET w == parse_whitespace(b, i0, cfg)
        p == peek(b, w.i)
    IN IF w.err # NoError THEN [kind |-> "error", i |-> w.i, err |-> w.err]
       ELSE IF p = Ch.rbrack THEN [kind |-> "none", i |-> w.i, err |-> NoError]
       ELSE IF p = EOF
       THEN [kind |-> "error", i |-> w.i,
             err |-> peek_error(b, w.i, "EOF while parsing a list")]
       ELSE IF p = Ch.comma /\ ~first
       THEN LET w2 == parse_whitespace(b, w.i + 1, cfg)
                q == peek(b, w2.i)
            IN IF w2.err # NoError THEN [kind |-> "error", i |-> w2.i, err |-> w2.err]
               ELSE IF q = Ch.rbrack
               THEN IF cfg.ignore_trailing_commas
                    THEN [kind |-> "none", i |-> w2.i, err |-> NoError]
                    ELSE [kind |-> "error", i |-> w2.i,
                          err |-> peek_error(b, w2.i, "trailing comma")]
               ELSE IF q = EOF
               THEN [kind |-> "error", i |-> w2.i,
                     err |-> peek_error(b, w2.i, "EOF while parsing a value")]
               ELSE [kind |-> "some", i |-> w2.i, err |-> NoError]
       ELSE IF first THEN [kind |-> "some", i |-> w.i, err |-> NoError]
       ELSE [kind |-> "error", i |-> w.i,
             err |-> peek_error(b, w.i, "expected , or ]")]

\* Deserializer::end_seq: eats the closing bracket
end_seq(b, i0, cfg) ==
    LET w == parse_whitespace(b, i0, cfg)
        p == peek(b, w.i)
    IN IF w.err # NoError THEN [i |-> w.i, err |-> w.err]
       ELSE IF p = Ch.rbrack THEN [i |-> w.i + 1, err |-> NoError]
       ELSE IF p = EOF
       THEN [i |-> w.i, err |-> peek_error(b, w.i, "EOF while parsing a list")]
       ELSE IF p = Ch.comma
       THEN LET w2 == parse_whitespace(b, w.i + 1, cfg)
            IN IF w2.err = NoError /\ peek(b, w2.i) = Ch.rbrack
               THEN [i |-> w2.i, err |-> peek_error(b, w2.i, "trailing comma")]
               ELSE [i |-> w2.i, err |-> peek_error(b, w2.i, "trailing characters")]
       ELSE [i |-> w.i, err |-> peek_error(b, w.i, "trailing characters")]

\* MapAccess::next_key_seed: "none" at the closing brace, "some" with the key
\* read, or an error
next_key_seed(b, i0, cfg, first) ==
    LET w == parse_whitespace(b, i0, cfg)
        p == peek(b, w.i)
        Err(i, e) == [kind |-> "error", i |-> i, err |-> e, key |-> <<>>]
        Key(i) == LET r == parse_str(b, i + 1, cfg, <<>>)
                  IN IF r.err # NoError THEN Err(r.i, r.err)
                     ELSE [kind |-> "some", i |-> r.i, err |-> NoError, key |-> r.s]
    IN IF w.err # NoError THEN Err(w.i, w.err)
       ELSE IF p = Ch.rbrace
       THEN [kind |-> "none", i |-> w.i, err |-> NoError, key |-> <<>>]
       ELSE IF p = EOF THEN Err(w.i, peek_error(b, w.i, "EOF while parsing an object"))
       ELSE IF p = Ch.comma /\ ~first
       THEN LET w2 == parse_whitespace(b, w.i + 1, cfg)
                q == peek(b, w2.i)
            IN IF w2.err # NoError THEN Err(w2.i, w2.err)
               ELSE IF q = Ch.quote THEN Key(w2.i)
               ELSE IF q = Ch.rbrace
               THEN IF cfg.ignore_trailing_commas
                    THEN [kind |-> "none", i |-> w2.i, err |-> NoError, key |-> <<>>]
                    ELSE Err(w2.i, peek_error(b, w2.i, "trailing comma"))
               ELSE IF q = EOF
               THEN Err(w2.i, peek_error(b, w2.i, "EOF while parsing a value"))
               ELSE Err(w2.i, peek_error(b, w2.i, "key must be a string"))
       ELSE IF ~first THEN Err(w.i, peek_error(b, w.i, "expected , or }"))
       ELSE IF p = Ch.quote THEN Key(w.i)
       ELSE Err(w.i, peek_error(b, w.i, "key must be a string"))

\* Deserializer::parse_object_colon, the start of MapAccess::next_value_seed
parse_object_colon(b, i0, cfg) ==
    LET w == parse_whitespace(b, i0, cfg)
        p == peek(b, w.i)
    IN IF w.err # NoError THEN [i |-> w.i, err |-> w.err]
       ELSE IF p = Ch.colon THEN [i |-> w.i + 1, err |-> NoError]
       ELSE IF p = EOF
       THEN [i |-> w.i, err |-> peek_error(b, w.i, "EOF while parsing an object")]
       ELSE [i |-> w.i, err |-> peek_error(b, w.i, "expected colon")]

\* Deserializer::end_map: eats the closing brace
end_map(b, i0, cfg) ==
    LET w == parse_whitespace(b, i0, cfg)
        p == peek(b, w.i)
    IN IF w.err # NoError THEN [i |-> w.i, err |-> w.err]
       ELSE IF p = Ch.rbrace THEN [i |-> w.i + 1, err |-> NoError]
       ELSE IF p = EOF
       THEN [i |-> w.i, err |-> peek_error(b, w.i, "EOF while parsing an object")]
       ELSE IF p = Ch.comma
       THEN [i |-> w.i, err |-> peek_error(b, w.i, "trailing comma")]
       ELSE [i |-> w.i, err |-> peek_error(b, w.i, "trailing characters")]

\* Deserializer::end: only whitespace (and comments) may follow the value
end(b, i0, cfg) ==
    LET w == parse_whitespace(b, i0, cfg)
    IN IF w.err # NoError THEN [i |-> w.i, err |-> w.err]
       ELSE IF peek(b, w.i) = EOF THEN [i |-> w.i, err |-> NoError]
       ELSE [i |-> w.i, err |-> peek_error(b, w.i, "trailing characters")]

(***************************************************************************)
(* decode_json up to the first visitor event.                               *)
(***************************************************************************)
\* to_parse[0..3]: a slice index past the end panics
SliceTo3(b) == IF Len(b) >= 3 THEN [panic |-> FALSE, val |-> SubSeq(b, 1, 3)]
               ELSE [panic |-> TRUE, val |-> <<>>]

\* a prelude that leaves the BOM in place
StripBomNever(json) == [panic |-> FALSE, to_parse |-> json]

\* a prelude that slices before it has looked at the length
StripBomUnguarded(json) ==
    LET head == SliceTo3(json)
    IN IF head.panic THEN [panic |-> TRUE, to_parse |-> <<>>]
       ELSE IF head.val = UTF8_BOM
       THEN [panic |-> FALSE, to_parse |-> SubSeq(json, 4, Len(json))]
       ELSE [panic |-> FALSE, to_parse |-> json]

\* a prelude that strips every BOM at the front, not only the first
RECURSIVE StripBomAll(_)
StripBomAll(json) ==
    IF Len(json) >= 3 /\ SubSeq(json, 1, 3) = UTF8_BOM
    THEN StripBomAll(SubSeq(json, 4, Len(json)))
    ELSE [panic |-> FALSE, to_parse |-> json]
\* to_parse.len() >= 3 && to_parse[0..3] == UTF8_BOM, and &to_parse[3..]
StripBom(json) ==
    IF Len(json) >= 3
    THEN LET head == SliceTo3(json)
         IN IF head.panic THEN [panic |-> TRUE, to_parse |-> <<>>]
            ELSE IF head.val = UTF8_BOM
            THEN [panic |-> FALSE, to_parse |-> SubSeq(json, 4, Len(json))]
            ELSE [panic |-> FALSE, to_parse |-> json]
    ELSE [panic |-> FALSE, to_parse |-> json]

\* a configuration that never passes allow_trailing_commas on
TokenizerConfigNoCommas(opts) ==
    [ replace_invalid_characters |-> opts.replace_invalid_characters,
      allow_control_chars_in_string |-> opts.allow_control_chars,
      allow_v_escapes |-> opts.allow_vert_tab,
      allow_x_escapes |-> opts.allow_x_escapes,
      recursion_limit_disabled |-> TRUE,
      ignore_trailing_commas |-> FALSE,
      allow_comments |-> opts.allow_comments ]

\* a configuration that never passes allow_comments on
TokenizerConfigNoComments(opts) ==
    [ replace_invalid_characters |-> opts.replace_invalid_characters,
      allow_control_chars_in_string |-> opts.allow_control_chars,
      allow_v_escapes |-> opts.allow_vert_tab,
      allow_x_escapes |-> opts.allow_x_escapes,
      recursion_limit_disabled |-> TRUE,
      ignore_trailing_commas |-> opts.allow_trailing_commas,
      allow_comments |-> FALSE ]

\* a configuration that leaves the tokenizer's own recursion limit on
TokenizerConfigLimited(opts) ==
    [ replace_invalid_characters |-> opts.replace_invalid_characters,
      allow_control_chars_in_string |-> opts.allow_control_chars,
      allow_v_escapes |-> opts.allow_vert_tab,
      allow_x_escapes |-> opts.allow_x_escapes,
      recursion_limit_disabled |-> FALSE,
      ignore_trailing_commas |-> opts.allow_trailing_commas,
      allow_comments |-> opts.allow_comments ]

\* SliceRead::new and the Deserializer setters: the tokenizer's configuration
TokenizerConfig(opts) ==
    [ replace_invalid_characters |-> opts.replace_invalid_characters,
      allow_control_chars_in_string |-> opts.allow_control_chars,
      allow_v_escapes |-> opts.allow_vert_tab,
      allow_x_escapes |-> opts.allow_x_escapes,
      recursion_limit_disabled |-> TRUE,
      ignore_trailing_commas |-> opts.allow_trailing_commas,
      allow_comments |-> opts.allow_comments ]

\* options.max_depth - 2
DepthArgument(opts) == UsizeSub(opts.max_depth, 2)

\* a constructor that does not add the level of the root value
ValueVisitorNewUncounted(max_depth) == UsizeAdd(max_depth, 0)
\* ValueVisitor::new: max_depth += 1
ValueVisitorNew(max_depth) == UsizeAdd(max_depth, 1)

\* a guard whose subtraction wraps
recurse_wrapping(guard) == [ok |-> TRUE, guard |-> guard - 1, err |-> NoError]

\* a guard that stays at zero instead of failing
recurse_saturating(guard) ==
    [ok |-> TRUE, guard |-> IF guard = 0 THEN 0 ELSE guard - 1, err |-> NoError]

\* RecursionDepthCheck::recurse: the guard of the next level, or the error
recurse(guard) ==
    LET r == CheckedSub1(guard)
    IN IF r.some THEN [ok |-> TRUE, guard |-> r.val, err |-> NoError]
       ELSE [ok |-> FALSE, guard |-> guard, err |-> custom("recursion limit exceeded")]

(***************************************************************************)
(* The visitor's scalar methods: st is the sink with the record of the      *)
(* operations issued on it, container the DeserializationTarget.            *)
(***************************************************************************)
Issue(st, container, node) ==
    [sink |-> Place(st.sink, container, node),
     ops |-> Append(st.ops, SinkOp(container, node))]

\* an integer written as a double
visit_i32_as_double(st, container, value) ==
    Issue(st, container,
          DoubleValue([neg |-> value < 0,
                       mag |-> <<0, 0, 0, 0, 0>>,
                       huge |-> FALSE, frac |-> <<>>]))

visit_i32(st, container, value) == Issue(st, container, IntegerValue(value))

visit_f64(st, container, value) == Issue(st, container, DoubleValue(value))

\* a visit_bool that stores the opposite value
visit_bool_negating(st, container, value) == Issue(st, container, BoolValue(~value))

visit_bool(st, container, value) == Issue(st, container, BoolValue(value))

visit_str(st, container, value) == Issue(st, container, StringValue(value))

visit_none(st, container) == Issue(st, container, NoneValue)

visit_unit(st, container) == visit_none(st, container)

\* i32::try_from(value), else value as f64
visit_i64(st, container, neg, mag) ==
    IF FitsI32(neg, mag) THEN visit_i32(st, container, ToI32(neg, mag))
    ELSE visit_f64(st, container, AsF64(neg, mag))

\* a truncating cast (value as i32) of whatever fits 32 bits
visit_u64_truncating(st, container, mag) ==
    IF mag[3] = 0 /\ mag[4] = 0
    THEN visit_i32(st, container,
                   IF mag[2] >= Half THEN (mag[2] - Base) * Base + mag[1]
                   ELSE mag[2] * Base + mag[1])
    ELSE visit_f64(st, container, AsF64(FALSE, mag))

visit_u64(st, container, mag) ==
    IF FitsI32(FALSE, mag) THEN visit_i32(st, container, ToI32(FALSE, mag))
    ELSE visit_f64(st, container, AsF64(FALSE, mag))

\* visit_i8: self.visit_i32(value as i32); the i8 is held as its byte, which
\* the cast sign-extends
visit_i8(st, container, byte) ==
    visit_i32(st, container, IF byte >= 128 THEN byte - 256 ELSE byte)

\* visit_borrowed_str: the same match as visit_str, on the borrowed slice
visit_borrowed_str(st, container, value) == Issue(st, container, StringValue(value))

\* visit_string: self.visit_str(&value)
visit_string(st, container, value) == visit_str(st, container, value)
(***************************************************************************)
(* State.  Every variable is a function of the call.                        *)
(*   json      the input bytes of the call                                  *)
(*   options   its JsonOptions                                              *)
(*   pc        where the call is: "off" (slot unused), "init" (not yet      *)
(*             called), "value" (a visitor is handed to deserialize_any),   *)
(*             "visit" (the tokenizer calls the visitor's method),          *)
(*             "seq" / "map" (at the head of visit_seq's / visit_map's      *)
(*             loop), "unwind" (an error is propagating), "end" (before     *)
(*             deserializer.end()), and the outcomes "ok", "err", "panic"   *)
(*   to_parse  the bytes handed to the tokenizer                            *)
(*   index     the bytes the tokenizer has consumed                         *)
(*   visitor   the ValueVisitor waiting at "value": its target and guard    *)
(*   event     at "visit", the event the tokenizer calls the visitor with   *)
(*   stack     the open visit_seq / visit_map frames, outermost first: the  *)
(*             handle `value`, self.recursion_depth_check, the access's     *)
(*             first flag                                                   *)
(*   sink      the value slot's tree                                        *)
(*   ops       the sink operations issued so far, in order                  *)
(*   err       the error propagating or returned                            *)
(*   ffi       for a call made through decode_json_from_cpp, its out        *)
(*             parameters and its return value                              *)
(* and one of the build: overflow_checks, whether usize arithmetic panics   *)
(* on overflow (it wraps otherwise).                                        *)
(***************************************************************************)
VARIABLES json, options, pc, to_parse, index, visitor, event, stack, sink,
          ops, err, overflow_checks, ffi

vars == <<json, options, pc, to_parse, index, visitor, event, stack, sink,
          ops, err, overflow_checks, ffi>>

Calls == {1, 2, 3}

ValueVisitor(container, guard) ==
    [container |-> container, recursion_depth_check |-> guard]

Frame(kind, value, guard) ==
    [kind |-> kind, value |-> value, recursion_depth_check |-> guard, first |-> TRUE]

\* where a call goes once a value is complete: back to the loop of the
\* innermost open container, or to the end-of-stream check
Resume(stk) == IF stk = <<>> THEN "end" ELSE stk[Len(stk)].kind

Top(stk) == stk[Len(stk)]

\* a return from visit_seq / visit_map that leaves the container open
PopNothing(stk) == stk

Pop(stk) == SubSeq(stk, 1, Len(stk) - 1)

\* decode_json_from_cpp's side of a call: whether the call is made through
\* it, the out parameters error_line, error_column and error_message, and
\* the bool returned ("none" until it returns).  The input of such a call
\* is json[c] preceded by `newlines` newline bytes and then `spaces` spaces,
\* kept as counts of four 16-bit limbs, so that an error can lie on a line
\* or in a column beyond the i32 range.
Ffi(via, newlines, spaces, message) ==
    [via |-> via, newlines |-> newlines, spaces |-> spaces, ret |-> "none",
     error_line |-> 0, error_column |-> 0, error_message |-> message]

NoFfi == Ffi(FALSE, <<0, 0, 0, 0>>, <<0, 0, 0, 0>>, <<>>)

\* decode_json, lines 110 to 132: strip the BOM, configure the tokenizer and
\* build the root visitor
decode_json(c) ==
    /\ pc[c] = "init"
    /\ LET bom == StripBom(json[c])
           arg == DepthArgument(options[c])
           new == ValueVisitorNew(arg.val)
       IN IF bom.panic \/ (overflow_checks /\ (arg.overflow \/ new.overflow))
          THEN /\ pc' = [pc EXCEPT ![c] = "panic"]
               /\ UNCHANGED <<to_parse, visitor>>
          ELSE /\ pc' = [pc EXCEPT ![c] = "value"]
               /\ to_parse' = [to_parse EXCEPT ![c] = bom.to_parse]
               /\ visitor' = [visitor EXCEPT ![c] = ValueVisitor(NewValue, new.val)]
    /\ UNCHANGED <<ffi, json, options, index, event, stack, sink, ops, err, overflow_checks>>

\* Deserializer::deserialize_any with the waiting visitor: the tokenizer reads
\* up to the next event, or fails
DeserializeAny(c) ==
    /\ pc[c] = "value"
    /\ LET ev == deserialize_any(to_parse[c], index[c], TokenizerConfig(options[c]),
                                 Len(stack[c]))
       IN /\ index' = [index EXCEPT ![c] = ev.i]
          /\ event' = [event EXCEPT ![c] = ev]
          /\ err' = [err EXCEPT ![c] = ev.err]
          /\ pc' = [pc EXCEPT ![c] = IF ev.kind = "error" THEN "unwind" ELSE "visit"]
    /\ UNCHANGED <<ffi, json, options, to_parse, visitor, stack, sink, ops, overflow_checks>>

\* calls that all write into the slot of the first one
StShared(c) == [sink |-> sink[1], ops |-> ops[c]]

\* the sink of a call with the record of the operations issued on it
St(c) == [sink |-> sink[c], ops |-> ops[c]]

\* a scalar visit that first asks the recursion guard for a level
ScalarGuarded(c, kind, st) ==
    /\ pc[c] = "visit"
    /\ event[c].kind = kind
    /\ IF recurse(visitor[c].recursion_depth_check).ok
       THEN /\ sink' = [sink EXCEPT ![c] = st.sink]
            /\ ops' = [ops EXCEPT ![c] = st.ops]
            /\ pc' = [pc EXCEPT ![c] = Resume(stack[c])]
            /\ UNCHANGED err
       ELSE /\ err' = [err EXCEPT ![c] = custom("recursion limit exceeded")]
            /\ pc' = [pc EXCEPT ![c] = "unwind"]
            /\ UNCHANGED <<sink, ops>>
    /\ UNCHANGED <<ffi, json, options, to_parse, index, visitor, event, stack,
                   overflow_checks>>
\* a scalar event of the given kind: the visitor method has written the value
\* into its target, giving st, and the visit returns Ok
Scalar(c, kind, st) ==
    /\ pc[c] = "visit"
    /\ event[c].kind = kind
    /\ sink' = [sink EXCEPT ![c] = st.sink]
    /\ ops' = [ops EXCEPT ![c] = st.ops]
    /\ pc' = [pc EXCEPT ![c] = Resume(stack[c])]
    /\ UNCHANGED <<ffi, json, options, to_parse, index, visitor, event, stack, err,
                   overflow_checks>>

VisitUnit(c) == Scalar(c, "unit", visit_unit(St(c), visitor[c].container))

VisitBool(c) == Scalar(c, "bool", visit_bool(St(c), visitor[c].container, event[c].b))

VisitI64(c) ==
    Scalar(c, "i64", visit_i64(St(c), visitor[c].container, event[c].neg, event[c].mag))

VisitU64(c) == Scalar(c, "u64", visit_u64(St(c), visitor[c].container, event[c].mag))

VisitF64(c) == Scalar(c, "f64", visit_f64(St(c), visitor[c].container, event[c].d))

VisitStr(c) == Scalar(c, "str", visit_str(St(c), visitor[c].container, event[c].s))

\* the scalar methods that this tokenizer does not call but another
\* deserializer may: visit_i8, visit_i32, visit_borrowed_str, visit_string
\* and visit_none
VisitI8(c) == Scalar(c, "i8", visit_i8(St(c), visitor[c].container, event[c].mag[1]))

VisitI32(c) ==
    Scalar(c, "i32", visit_i32(St(c), visitor[c].container,
                               ToI32(event[c].neg, event[c].mag)))

VisitBorrowedStr(c) ==
    Scalar(c, "borrowed_str", visit_borrowed_str(St(c), visitor[c].container, event[c].s))

VisitString(c) == Scalar(c, "string", visit_string(St(c), visitor[c].container, event[c].s))

VisitNone(c) == Scalar(c, "none", visit_none(St(c), visitor[c].container))

\* a head of visit_seq / visit_map that opens the container without writing it
ContainerUnwritten(c, kind, node) ==
    /\ pc[c] = "visit"
    /\ event[c].kind = kind
    /\ stack' = [stack EXCEPT ![c] =
                   Append(@, Frame(kind, PlacedHandle(sink[c], visitor[c].container),
                                   visitor[c].recursion_depth_check))]
    /\ pc' = [pc EXCEPT ![c] = kind]
    /\ UNCHANGED <<ffi, json, options, to_parse, index, visitor, event, err, sink, ops,
                   overflow_checks>>

\* the head of visit_seq / visit_map: the container is written into the
\* target and its handle kept in `value`
Container(c, kind, node) ==
    /\ pc[c] = "visit"
    /\ event[c].kind = kind
    /\ LET st == Issue(St(c), visitor[c].container, node)
           value == PlacedHandle(sink[c], visitor[c].container)
       IN /\ sink' = [sink EXCEPT ![c] = st.sink]
          /\ ops' = [ops EXCEPT ![c] = st.ops]
          /\ stack' = [stack EXCEPT ![c] =
                         Append(@, Frame(kind, value, visitor[c].recursion_depth_check))]
          /\ pc' = [pc EXCEPT ![c] = kind]
    /\ UNCHANGED <<ffi, json, options, to_parse, index, visitor, event, err, overflow_checks>>

VisitSeq(c) == Container(c, "seq", ListValue)

VisitMap(c) == Container(c, "map", DictValue)

\* one turn of visit_seq's loop: recurse()?, then next_element_seed; at the
\* closing bracket visit_seq returns and deserialize_any runs end_seq
NextElement(c) ==
    /\ pc[c] = "seq"
    /\ LET top == Top(stack[c])
           cfg == TokenizerConfig(options[c])
           g == recurse(top.recursion_depth_check)
           nx == next_element_seed(to_parse[c], index[c], cfg, top.first)
           fin == end_seq(to_parse[c], nx.i, cfg)
       IN IF ~g.ok
          THEN /\ err' = [err EXCEPT ![c] = g.err]
               /\ pc' = [pc EXCEPT ![c] = "unwind"]
               /\ UNCHANGED <<index, visitor, stack>>
          ELSE IF nx.kind = "error"
          THEN /\ err' = [err EXCEPT ![c] = nx.err]
               /\ index' = [index EXCEPT ![c] = nx.i]
               /\ pc' = [pc EXCEPT ![c] = "unwind"]
               /\ UNCHANGED <<visitor, stack>>
          ELSE IF nx.kind = "none"
          THEN /\ index' = [index EXCEPT ![c] = fin.i]
               /\ stack' = [stack EXCEPT ![c] = Pop(@)]
               /\ pc' = [pc EXCEPT ![c] = Resume(Pop(stack[c]))]
               /\ UNCHANGED <<visitor, err>>
          ELSE /\ index' = [index EXCEPT ![c] = nx.i]
               /\ visitor' = [visitor EXCEPT ![c] = ValueVisitor(List(top.value), g.guard)]
               /\ stack' = [stack EXCEPT ![c][Len(stack[c])].first = FALSE]
               /\ pc' = [pc EXCEPT ![c] = "value"]
               /\ UNCHANGED err
    /\ UNCHANGED <<ffi, json, options, to_parse, event, sink, ops, overflow_checks>>

\* one turn of visit_map's loop: next_key()?, then recurse()?, then
\* next_value_seed; at the closing brace visit_map returns and deserialize_any
\* runs end_map
NextEntry(c) ==
    /\ pc[c] = "map"
    /\ LET top == Top(stack[c])
           cfg == TokenizerConfig(options[c])
           nx == next_key_seed(to_parse[c], index[c], cfg, top.first)
           g == recurse(top.recursion_depth_check)
           colon == parse_object_colon(to_parse[c], nx.i, cfg)
           fin == end_map(to_parse[c], nx.i, cfg)
       IN IF nx.kind = "error"
          THEN /\ err' = [err EXCEPT ![c] = nx.err]
               /\ index' = [index EXCEPT ![c] = nx.i]
               /\ pc' = [pc EXCEPT ![c] = "unwind"]
               /\ UNCHANGED <<visitor, stack>>
          ELSE IF nx.kind = "none"
          THEN /\ index' = [index EXCEPT ![c] = fin.i]
               /\ stack' = [stack EXCEPT ![c] = Pop(@)]
               /\ pc' = [pc EXCEPT ![c] = Resume(Pop(stack[c]))]
               /\ UNCHANGED <<visitor, err>>
          ELSE IF ~g.ok
          THEN /\ err' = [err EXCEPT ![c] = g.err]
               /\ index' = [index EXCEPT ![c] = nx.i]
               /\ stack' = [stack EXCEPT ![c][Len(stack[c])].first = FALSE]
               /\ pc' = [pc EXCEPT ![c] = "unwind"]
               /\ UNCHANGED visitor
          ELSE IF colon.err # NoError
          THEN /\ err' = [err EXCEPT ![c] = colon.err]
               /\ index' = [index EXCEPT ![c] = colon.i]
               /\ stack' = [stack EXCEPT ![c][Len(stack[c])].first = FALSE]
               /\ pc' = [pc EXCEPT ![c] = "unwind"]
               /\ UNCHANGED visitor
          ELSE /\ index' = [index EXCEPT ![c] = colon.i]
               /\ visitor' = [visitor EXCEPT ![c] =
                                ValueVisitor(Dict(top.value, nx.key), g.guard)]
               /\ stack' = [stack EXCEPT ![c][Len(stack[c])].first = FALSE]
               /\ pc' = [pc EXCEPT ![c] = "value"]
               /\ UNCHANGED err
    /\ UNCHANGED <<ffi, json, options, to_parse, event, sink, ops, overflow_checks>>

\* an unwinding that writes none into the slot when decode_json returns the
\* error
UnwindNulling(c) ==
    /\ pc[c] = "unwind"
    /\ IF stack[c] = <<>>
       THEN /\ pc' = [pc EXCEPT ![c] = "err"]
            /\ sink' = [sink EXCEPT ![c] = visit_none(St(c), NewValue).sink]
            /\ ops' = [ops EXCEPT ![c] = visit_none(St(c), NewValue).ops]
            /\ UNCHANGED <<index, stack, err>>
       ELSE LET top == Top(stack[c])
                cfg == TokenizerConfig(options[c])
                fin == IF top.kind = "seq" THEN end_seq(to_parse[c], index[c], cfg)
                       ELSE end_map(to_parse[c], index[c], cfg)
            IN /\ index' = [index EXCEPT ![c] = fin.i]
               /\ err' = [err EXCEPT ![c] = fix_position(@, to_parse[c], fin.i)]
               /\ stack' = [stack EXCEPT ![c] = Pop(@)]
               /\ UNCHANGED <<pc, sink, ops>>
    /\ UNCHANGED <<ffi, json, options, to_parse, visitor, event, overflow_checks>>

\* an unwinding that clears the slot when decode_json returns the error
UnwindRollback(c) ==
    /\ pc[c] = "unwind"
    /\ IF stack[c] = <<>>
       THEN /\ pc' = [pc EXCEPT ![c] = "err"]
            /\ sink' = [sink EXCEPT ![c] = Unset]
            /\ UNCHANGED <<index, stack, err>>
       ELSE LET top == Top(stack[c])
                cfg == TokenizerConfig(options[c])
                fin == IF top.kind = "seq" THEN end_seq(to_parse[c], index[c], cfg)
                       ELSE end_map(to_parse[c], index[c], cfg)
            IN /\ index' = [index EXCEPT ![c] = fin.i]
               /\ err' = [err EXCEPT ![c] = fix_position(@, to_parse[c], fin.i)]
               /\ stack' = [stack EXCEPT ![c] = Pop(@)]
               /\ UNCHANGED <<pc, sink>>
    /\ UNCHANGED <<ffi, json, options, to_parse, visitor, event, ops, overflow_checks>>

\* an error leaves one level: the deserialize_any that opened the innermost
\* container still runs end_seq / end_map, keeps the visitor's error and
\* fixes its position; with no container left decode_json returns the error
Unwind(c) ==
    /\ pc[c] = "unwind"
    /\ IF stack[c] = <<>>
       THEN /\ pc' = [pc EXCEPT ![c] = "err"]
            /\ UNCHANGED <<index, stack, err>>
       ELSE LET top == Top(stack[c])
                cfg == TokenizerConfig(options[c])
                fin == IF top.kind = "seq" THEN end_seq(to_parse[c], index[c], cfg)
                       ELSE end_map(to_parse[c], index[c], cfg)
            IN /\ index' = [index EXCEPT ![c] = fin.i]
               /\ err' = [err EXCEPT ![c] = fix_position(@, to_parse[c], fin.i)]
               /\ stack' = [stack EXCEPT ![c] = Pop(@)]
               /\ UNCHANGED pc
    /\ UNCHANGED <<ffi, json, options, to_parse, visitor, event, sink, ops, overflow_checks>>

\* a return that skips the end-of-stream check
EndUnchecked(c) ==
    /\ pc[c] = "end"
    /\ pc' = [pc EXCEPT ![c] = "ok"]
    /\ UNCHANGED <<ffi, json, options, to_parse, index, visitor, event, stack, sink, ops,
                   err, overflow_checks>>

\* decode_json, lines 133 and 134: deserializer.end()?, then Ok
End(c) ==
    /\ pc[c] = "end"
    /\ LET fin == end(to_parse[c], index[c], TokenizerConfig(options[c]))
       IN /\ index' = [index EXCEPT ![c] = fin.i]
          /\ err' = [err EXCEPT ![c] = fin.err]
          /\ pc' = [pc EXCEPT ![c] = IF fin.err = NoError THEN "ok" ELSE "err"]
    /\ UNCHANGED <<ffi, json, options, to_parse, visitor, event, stack, sink, ops,
                   overflow_checks>>

\* the debug serialization of the tree a call decoded becomes the input of
\* the next call, which is then made
Redecode(c) ==
    /\ pc[c] = "dump"
    /\ c - 1 \in Calls
    /\ pc[c - 1] = "ok"
    /\ json' = [json EXCEPT ![c] = Dump(sink[c - 1])]
    /\ pc' = [pc EXCEPT ![c] = "init"]
    /\ UNCHANGED <<ffi, options, to_parse, index, visitor, event, stack, sink, ops, err,
                   overflow_checks>>

\* the values and keys the callers of the values API write, and how many
\* calls they make on a slot
ApiValues == {NoneValue, IntegerValue(3), IntegerValue(7), DictValue, ListValue}

ApiKeys == {<<Ch.a>>, <<Ch.b>>, <<Ch.a, Ch.b>>}

\* the handles a caller of the values API holds: a frame per container
\* handle, each borrowed from the one before it, the first from the slot;
\* the handle a container just written at `target` gives is put on the
\* chain kept up to the handle used
Borrow(stk, node, value) ==
    IF node.t = "dict" THEN Append(stk, Frame("map", value, 0))
    ELSE IF node.t = "list" THEN Append(stk, Frame("seq", value, 0))
    ELSE stk

\* one call of the values API on `target`, through the k-th handle held (0:
\* the slot itself); the handles borrowed from that one are gone
ApiCall(c, k, target, node) ==
    /\ pc[c] = "api"
    /\ Len(ops[c]) < MaxOps
    /\ LET st == Issue(St(c), target, node)
       IN /\ sink' = [sink EXCEPT ![c] = st.sink]
          /\ ops' = [ops EXCEPT ![c] = st.ops]
          /\ stack' = [stack EXCEPT ![c] =
                         Borrow(SubSeq(@, 1, k), node, PlacedHandle(sink[c], target))]
    /\ UNCHANGED <<ffi, json, options, pc, to_parse, index, visitor, event, err,
                   overflow_checks>>

\* ValueSlotRef::construct_*
construct_value(c) == \E node \in ApiValues : ApiCall(c, 0, NewValue, node)

\* ListValueRef::append_*
append_value(c) ==
    \E k \in 1..Len(stack[c]), node \in ApiValues :
        /\ stack[c][k].kind = "seq"
        /\ ApiCall(c, k, List(stack[c][k].value), node)

\* DictValueRef::set_*_key
set_value_key(c) ==
    \E k \in 1..Len(stack[c]), key \in ApiKeys, node \in ApiValues :
        /\ stack[c][k].kind = "map"
        /\ ApiCall(c, k, Dict(stack[c][k].value, key), node)

\* usize -> i32 of try_into().unwrap_or(-1), the usize held as limbs
TryIntoI32(m) == IF FitsI32(FALSE, m) THEN ToI32(FALSE, m) ELSE 0 - 1

\* err.line() and err.column() of a call through decode_json_from_cpp, whose
\* input has `newlines` newline bytes and `spaces` spaces before json[c]:
\* the newlines come before the error's line, the spaces stand on the first
\* line of json[c]
ErrLine(e, out) == AddAt(out.newlines, 1, e.line)

ErrColumn(e, out) == IF e.line = 1 THEN AddAt(out.spaces, 1, e.column)
                     ELSE AddAt(Zero4, 1, e.column)

\* err.to_string(): the message with its line and column
ErrToString(e, out) ==
    [msg |-> e.msg, line |-> ErrLine(e, out), column |-> ErrColumn(e, out)]

\* a match arm that pushes the error text without clearing the buffer
from_cpp_match_appending(ok, e, out) ==
    IF ok THEN [out EXCEPT !.ret = "true"]
    ELSE [out EXCEPT !.error_line = TryIntoI32(ErrLine(e, out)),
                     !.error_column = TryIntoI32(ErrColumn(e, out)),
                     !.error_message = Append(@, ErrToString(e, out)),
                     !.ret = "false"]

\* a match whose Ok arm resets the out parameters
from_cpp_match_resetting(ok, e, out) ==
    IF ok THEN [out EXCEPT !.error_line = 0, !.error_column = 0,
                           !.error_message = <<>>, !.ret = "true"]
    ELSE [out EXCEPT !.error_line = TryIntoI32(ErrLine(e, out)),
                     !.error_column = TryIntoI32(ErrColumn(e, out)),
                     !.error_message = <<ErrToString(e, out)>>,
                     !.ret = "false"]

\* decode_json_from_cpp, lines 163 to 175: the match on decode_json's result
from_cpp_match(ok, e, out) ==
    IF ok THEN [out EXCEPT !.ret = "true"]
    ELSE [out EXCEPT !.error_line = TryIntoI32(ErrLine(e, out)),
                     !.error_column = TryIntoI32(ErrColumn(e, out)),
                     !.error_message = <<ErrToString(e, out)>>,
                     !.ret = "false"]

\* decode_json_from_cpp returns, decode_json having returned to it
decode_json_from_cpp(c) ==
    /\ ffi[c].via
    /\ ffi[c].ret = "none"
    /\ pc[c] \in {"ok", "err"}
    /\ ffi' = [ffi EXCEPT ![c] = from_cpp_match(pc[c] = "ok", err[c], @)]
    /\ UNCHANGED <<json, options, pc, to_parse, index, visitor, event, stack, sink, ops,
                   err, overflow_checks>>

Step(c) ==
    \/ decode_json(c)
    \/ DeserializeAny(c)
    \/ VisitUnit(c)
    \/ VisitBool(c)
    \/ VisitI64(c)
    \/ VisitU64(c)
    \/ VisitF64(c)
    \/ VisitStr(c)
    \/ VisitSeq(c)
    \/ VisitMap(c)
    \/ NextElement(c)
    \/ NextEntry(c)
    \/ Unwind(c)
    \/ End(c)

Next == \E c \in Calls : Step(c)

(***************************************************************************)
(* Inputs.  Named sample inputs, given as their bytes.                      *)
(***************************************************************************)
\* { "a": 4 }
InObjA4 ==
    <<123, 32, 34, 97, 34, 58, 32, 52, 32, 125>>

\* [1,2,]
InList12Comma ==
    <<91, 49, 44, 50, 44, 93>>

\* [1,2]
InList12 ==
    <<91, 49, 44, 50, 93>>

\* {"a":1,}
InObjA1Comma ==
    <<123, 34, 97, 34, 58, 49, 44, 125>>

\* {"a":1}
InObjA1 ==
    <<123, 34, 97, 34, 58, 49, 125>>

\* { /* c */ "a": 1 }
InObjBlockComment ==
    <<123, 32, 47, 42, 32, 99, 32, 42, 47, 32, 34, 97, 34, 58, 32, 49, 32,
    125>>

\* {  "a": 1 }
InObjNoComment ==
    <<123, 32, 32, 34, 97, 34, 58, 32, 49, 32, 125>>

\* [1 // c<nl>,2]
InListLineComment ==
    <<91, 49, 32, 47, 47, 32, 99, 10, 44, 50, 93>>

\* [1 <nl>,2]
InListNoComment ==
    <<91, 49, 32, 10, 44, 50, 93>>

\* 2147483647
InI32Max ==
    <<50, 49, 52, 55, 52, 56, 51, 54, 52, 55>>

\* [2147483648]
InI32MaxPlus1 ==
    <<91, 50, 49, 52, 55, 52, 56, 51, 54, 52, 56, 93>>

\* {"a":-2147483648}
InI32Min ==
    <<123, 34, 97, 34, 58, 45, 50, 49, 52, 55, 52, 56, 51, 54, 52, 56, 125>>

\* -2147483649
InI32MinMinus1 ==
    <<45, 50, 49, 52, 55, 52, 56, 51, 54, 52, 57>>

\* 9007199254740993
InTwoTo53Plus1 ==
    <<57, 48, 48, 55, 49, 57, 57, 50, 53, 52, 55, 52, 48, 57, 57, 51>>

\* [9007199254740995]
InTwoTo53Plus3 ==
    <<91, 57, 48, 48, 55, 49, 57, 57, 50, 53, 52, 55, 52, 48, 57, 57, 53,
    93>>

\* 18446744073709551615
InU64Max ==
    <<49, 56, 52, 52, 54, 55, 52, 52, 48, 55, 51, 55, 48, 57, 53, 53, 49,
    54, 49, 53>>

\* {"b":-9223372036854775808}
InI64Min ==
    <<123, 34, 98, 34, 58, 45, 57, 50, 50, 51, 51, 55, 50, 48, 51, 54, 56,
    53, 52, 55, 55, 53, 56, 48, 56, 125>>

\* -0
InMinusZero ==
    <<45, 48>>

\* [null,true,false,"ab"]
InScalars ==
    <<91, 110, 117, 108, 108, 44, 116, 114, 117, 101, 44, 102, 97, 108, 115,
    101, 44, 34, 97, 98, 34, 93>>

\* null
InNull ==
    <<110, 117, 108, 108>>

\* "ab"
InStr ==
    <<34, 97, 98, 34>>

\* 1 1
InTrailingScalar ==
    <<49, 32, 49>>

\* [1] 2
InTrailingAfterList ==
    <<91, 49, 93, 32, 50>>

\* {"a":[]}]
InTrailingBrace ==
    <<123, 34, 97, 34, 58, 91, 93, 125, 93>>

\* [1,[2,x]]
InBadInner ==
    <<91, 49, 44, 91, 50, 44, 120, 93, 93>>

\* {"a":[1,{"b":}
InBadValue ==
    <<123, 34, 97, 34, 58, 91, 49, 44, 123, 34, 98, 34, 58, 125>>

\* {"a":1,"a":{},"b":2}
InDupKey ==
    <<123, 34, 97, 34, 58, 49, 44, 34, 97, 34, 58, 123, 125, 44, 34, 98, 34,
    58, 50, 125>>

\* [[1],[2,[3]],{}]
InWide ==
    <<91, 91, 49, 93, 44, 91, 50, 44, 91, 51, 93, 93, 44, 123, 125, 93>>

\* "a<nl>b"
InCtlInStr ==
    <<34, 97, 10, 98, 34>>

\*  <nl>
InBlank ==
    <<32, 10>>

\* [1] // c
InTrailingComment ==
    <<91, 49, 93, 32, 47, 47, 32, 99>>

\* [3.1,-0.50]
InDecimals ==
    <<91, 51, 46, 49, 44, 45, 48, 46, 53, 48, 93>>

\* {"b":"a\"\\","a":[]}
InEscapes ==
    <<123, 34, 98, 34, 58, 34, 97, 92, 34, 92, 92, 34, 44, 34, 97, 34, 58, 91, 93, 125>>

Samples ==
    {InObjA4, InList12Comma, InList12, InObjA1Comma, InObjA1,
    InObjBlockComment, InObjNoComment, InListLineComment, InListNoComment,
    InI32Max, InI32MaxPlus1, InI32Min, InI32MinMinus1, InTwoTo53Plus1,
    InTwoTo53Plus3, InU64Max, InI64Min, InMinusZero, InScalars, InNull,
    InStr, InTrailingScalar, InTrailingAfterList, InTrailingBrace,
    InBadInner, InBadValue, InDupKey, InWide, InCtlInStr, InBlank,
    InTrailingComment}

\* "a":
KeyA == <<Ch.quote, Ch.a, Ch.quote, Ch.colon>>

\* containers nested Len(kinds) deep, outermost first: a list is [ ... ], a
\* dict {"a": ... }; the innermost one is empty or holds the scalar 1
RECURSIVE Nested(_, _)
Nested(kinds, scalar) ==
    LET inner == IF Len(kinds) > 1 THEN Nested(Tail(kinds), scalar)
                 ELSE IF scalar THEN <<Digit(1)>> ELSE <<>>
    IN IF Head(kinds) = "seq" THEN <<Ch.lbrack>> \o inner \o <<Ch.rbrack>>
       ELSE IF inner = <<>> THEN <<Ch.lbrace, Ch.rbrace>>
       ELSE <<Ch.lbrace>> \o KeyA \o inner \o <<Ch.rbrace>>

\* every sequence over S of length 1 to n
RECURSIVE SeqsUpTo(_, _)
SeqsUpTo(S, n) ==
    IF n = 0 THEN {}
    ELSE LET shorter == SeqsUpTo(S, n - 1)
         IN {<<x>> : x \in S} \cup shorter \cup {Append(q, x) : q \in shorter, x \in S}

Kinds == {"seq", "map"}

NestInputs == {Nested(k, sc) : k \in SeqsUpTo(Kinds, MaxNest), sc \in BOOLEAN}

\* the bytes of the exhaustive family: the BOM's, the brackets and a digit
Alphabet == {239, 187, 191, Ch.lbrack, Ch.rbrack, Digit(1)}

ByteInputs == {<<>>} \cup SeqsUpTo(Alphabet, MaxLen)

\* max_depth values: the small ones, 0 and 1 included, and the two the tests use
Depths == 0..MaxDepth

SampleDepths == {0, 1, 2, 3, TestOptions.max_depth, UsizeMax}

\* a decode call to make: an input with an option set
Case(j, o) == [json |-> j, options |-> o]

NestCases ==
    {Case(j, o) : j \in NestInputs,
                  o \in {with_chromium_extensions(d) : d \in Depths \cup {UsizeMax}}
                        \cup {[TestOptions EXCEPT !.max_depth = d] : d \in Depths}}

ByteCases ==
    {Case(j, [TestOptions EXCEPT !.max_depth = d]) : j \in ByteInputs, d \in {2, 3}}

SampleCases ==
    {Case(j, JsonOptions(tc, FALSE, com, ctl, ctl, ctl, d)) :
        j \in Samples, tc \in BOOLEAN, com \in BOOLEAN, ctl \in BOOLEAN,
        d \in SampleDepths}

Cases == NestCases \cup ByteCases \cup SampleCases

\* the call slots before anything has run on them, slot c at on[c] ("off": not
\* used); the build is only a choice where a call's max_depth makes the
\* arithmetic of decode_json overflow
Fresh(on) ==
    /\ pc = [c \in Calls |-> on[c]]
    /\ to_parse = [c \in Calls |-> <<>>]
    /\ index = [c \in Calls |-> 0]
    /\ visitor = [c \in Calls |-> ValueVisitor(NewValue, 0)]
    /\ event = [c \in Calls |-> ErrorEvent(0, NoError)]
    /\ stack = [c \in Calls |-> <<>>]
    /\ sink = [c \in Calls |-> Unset]
    /\ ops = [c \in Calls |-> <<>>]
    /\ err = [c \in Calls |-> NoError]
    /\ overflow_checks \in
         IF \E c \in Calls : on[c] # "off" /\ options[c].max_depth \in {0, 1}
         THEN BOOLEAN ELSE {TRUE}

\* one decode call on a fresh slot
Init ==
    /\ \E cs \in Cases :
         /\ json = [c \in Calls |-> IF c = 1 THEN cs.json ELSE <<>>]
         /\ options = [c \in Calls |-> cs.options]
    /\ Fresh([c \in Calls |-> IF c = 1 THEN "init" ELSE "off"])
    /\ ffi = [c \in Calls |-> NoFfi]

Spec == Init /\ [][Next]_vars

Returned == {"ok", "err", "panic"}

\* decode(s) on one slot, then decode(BOM ++ s) with the same options on another
InitBom ==
    /\ \E cs \in ByteCases \cup SampleCases :
         /\ json = [c \in Calls |-> IF c = 1 THEN cs.json
                                   ELSE IF c = 2 THEN UTF8_BOM \o cs.json ELSE <<>>]
         /\ options = [c \in Calls |-> cs.options]
    /\ Fresh([c \in Calls |-> IF c <= 2 THEN "init" ELSE "off"])
    /\ ffi = [c \in Calls |-> NoFfi]

\* the second call is made when the first has returned
Turn(c) == c = 1 \/ pc[1] \in Returned

NextBom ==
    \E c \in Calls :
        \/ Turn(c) /\ decode_json(c)
        \/ Turn(c) /\ DeserializeAny(c)
        \/ Turn(c) /\ VisitUnit(c)
        \/ Turn(c) /\ VisitBool(c)
        \/ Turn(c) /\ VisitI64(c)
        \/ Turn(c) /\ VisitU64(c)
        \/ Turn(c) /\ VisitF64(c)
        \/ Turn(c) /\ VisitStr(c)
        \/ Turn(c) /\ VisitSeq(c)
        \/ Turn(c) /\ VisitMap(c)
        \/ Turn(c) /\ NextElement(c)
        \/ Turn(c) /\ NextEntry(c)
        \/ Turn(c) /\ Unwind(c)
        \/ Turn(c) /\ End(c)

SpecBom == InitBom /\ [][NextBom]_vars

\* inputs for the round trip: the samples whose doubles stay below 2^64 (the
\* tokenizer here keeps a number beyond u64 only as `huge`), two with
\* decimals and escapes, and the nested family
RoundSamples == (Samples \ {InU64Max}) \cup {InDecimals, InEscapes}

RoundCases ==
    {Case(j, JsonOptions(FALSE, FALSE, FALSE, ctl, ctl, ctl, d)) :
        j \in RoundSamples, ctl \in BOOLEAN, d \in {3, TestOptions.max_depth}}
    \cup {Case(j, with_chromium_extensions(d)) : j \in NestInputs, d \in 2..MaxDepth}

\* decode(s) on one slot, then decode of the slot's debug serialization with
\* the same options on a second slot, then the same again on a third
InitRound ==
    /\ \E cs \in RoundCases :
         /\ json = [c \in Calls |-> IF c = 1 THEN cs.json ELSE <<>>]
         /\ options = [c \in Calls |-> cs.options]
    /\ Fresh([c \in Calls |-> IF c = 1 THEN "init" ELSE "dump"])
    /\ ffi = [c \in Calls |-> NoFfi]

NextRound == \E c \in Calls : Step(c) \/ Redecode(c)

SpecRound == InitRound /\ [][NextRound]_vars

\* calls to run side by side: successes with every kind of value, a tokenizer
\* error inside a list, a recursion failure, and a max_depth of 0
PairCases ==
    {Case(InWide, TestOptions), Case(InDupKey, TestOptions),
     Case(InBadInner, TestOptions), Case(InTrailingAfterList, TestOptions),
     Case(InObjBlockComment, with_chromium_extensions(3)),
     Case(Nested(<<"seq", "map", "seq">>, TRUE), with_chromium_extensions(2)),
     Case(InScalars, TestOptions), Case(InMinusZero, TestOptions),
     Case(InI32Min, TestOptions), Case(InNull, with_chromium_extensions(0))}

\* two decode calls on two slots, free to interleave, and the first call's
\* case once more on a third slot
InitPair ==
    /\ \E x \in PairCases, y \in PairCases :
         /\ json = [c \in Calls |-> IF c = 2 THEN y.json ELSE x.json]
         /\ options = [c \in Calls |-> IF c = 2 THEN y.options ELSE x.options]
    /\ Fresh([c \in Calls |-> "init"])
    /\ ffi = [c \in Calls |-> NoFfi]

\* the third call runs alone: it is made when the other two have returned
Solo(c) == c # 3 \/ (pc[1] \in Returned /\ pc[2] \in Returned)

NextPair ==
    \E c \in Calls :
        \/ Solo(c) /\ decode_json(c)
        \/ Solo(c) /\ DeserializeAny(c)
        \/ Solo(c) /\ VisitUnit(c)
        \/ Solo(c) /\ VisitBool(c)
        \/ Solo(c) /\ VisitI64(c)
        \/ Solo(c) /\ VisitU64(c)
        \/ Solo(c) /\ VisitF64(c)
        \/ Solo(c) /\ VisitStr(c)
        \/ Solo(c) /\ VisitSeq(c)
        \/ Solo(c) /\ VisitMap(c)
        \/ Solo(c) /\ NextElement(c)
        \/ Solo(c) /\ NextEntry(c)
        \/ Solo(c) /\ Unwind(c)
        \/ Solo(c) /\ End(c)

SpecPair == InitPair /\ [][NextPair]_vars

\* counts of newlines and of spaces before the input of a call from C++:
\* none, and the two that put an error at the end or past the end of i32
I32MaxMinus1 == <<65534, 32767, 0, 0>>

I32Max == <<65535, 32767, 0, 0>>

Pads == {Zero4, I32MaxMinus1, I32Max}

\* what the caller's message buffer holds before the call
Stale == [msg |-> "stale", line |-> Zero4, column |-> Zero4]

\* what the caller's error_line and error_column hold before the call: zeros,
\* or values no error gives
StaleAt == {<<0, 0>>, <<0 - 7, 0 - 9>>}

CppCases ==
    {Case(j, JsonOptions(FALSE, FALSE, com, FALSE, FALSE, FALSE, d)) :
        j \in Samples, com \in BOOLEAN, d \in {2, TestOptions.max_depth}}

\* one call through decode_json_from_cpp
InitCpp ==
    /\ \E cs \in CppCases :
         /\ json = [c \in Calls |-> IF c = 1 THEN cs.json ELSE <<>>]
         /\ options = [c \in Calls |-> cs.options]
    /\ Fresh([c \in Calls |-> IF c = 1 THEN "init" ELSE "off"])
    /\ \E nl \in Pads, sp \in Pads, msg \in {<<>>, <<Stale>>}, at \in StaleAt :
         ffi = [c \in Calls |->
                  IF c = 1 THEN [Ffi(TRUE, nl, sp, msg) EXCEPT !.error_line = at[1],
                                                               !.error_column = at[2]]
                  ELSE NoFfi]

NextCpp == \E c \in Calls : Step(c) \/ decode_json_from_cpp(c)

SpecCpp == InitCpp /\ [][NextCpp]_vars

\* inputs for termination: every byte string of the exhaustive family, the
\* samples and the nested family, at depths that stop some of them early
LiveCases ==
    ByteCases
    \cup {Case(j, with_chromium_extensions(d)) :
             j \in Samples \cup NestInputs, d \in {0, 2, 3, TestOptions.max_depth}}

InitLive ==
    /\ \E cs \in LiveCases :
         /\ json = [c \in Calls |-> IF c = 1 THEN cs.json ELSE <<>>]
         /\ options = [c \in Calls |-> cs.options]
    /\ Fresh([c \in Calls |-> IF c = 1 THEN "init" ELSE "off"])
    /\ ffi = [c \in Calls |-> NoFfi]

\* a call under way keeps running: the thread that made it is scheduled
SpecLive == InitLive /\ [][Next]_vars /\ WF_vars(Next)

\* a caller of the values API on a fresh slot
InitValues ==
    /\ json = [c \in Calls |-> <<>>]
    /\ options = [c \in Calls |-> TestOptions]
    /\ Fresh([c \in Calls |-> IF c = 1 THEN "api" ELSE "off"])
    /\ ffi = [c \in Calls |-> NoFfi]

NextValues ==
    \E c \in Calls :
        \/ construct_value(c)
        \/ append_value(c)
        \/ set_value_key(c)

SpecValues == InitValues /\ [][NextValues]_vars

\* the scalars put beside a nested container, and those put into the
\* innermost one: true, -1, 0.5, 1 and null, "a"
SiblingScalars ==
    <<(<<Ch.t, Ch.r, Ch.u, Ch.e>>), <<Ch.minus, Digit(1)>>, <<Digit(0), Ch.dot, Digit(5)>>,
      <<Digit(1)>>>>

InnerScalars == <<(<<Ch.n, Ch.u, Ch.l, Ch.l>>), <<Ch.quote, Ch.a, Ch.quote>>>>

SiblingKeys == <<Ch.b, Ch.c, Ch.e, Ch.f>>

\* the first n of the scalars as the elements of a list (keyed = FALSE) or
\* as the entries of a dict, from the i-th on, with a comma between two and,
\* when more is to follow them, after the last
RECURSIVE Filling(_, _, _, _, _)
Filling(scalars, i, n, keyed, more) ==
    IF i > n THEN <<>>
    ELSE (IF keyed THEN <<Ch.quote, SiblingKeys[i], Ch.quote, Ch.colon>> ELSE <<>>)
         \o scalars[i]
         \o (IF i < n \/ more THEN <<Ch.comma>> ELSE <<>>)
         \o Filling(scalars, i + 1, n, keyed, more)

\* containers nested as in Nested(kinds, _), each but the innermost holding s
\* scalars before its nested container, the innermost holding e scalars
RECURSIVE Widen(_, _, _)
Widen(kinds, s, e) ==
    LET keyed == Head(kinds) = "map"
        open == IF keyed THEN <<Ch.lbrace>> ELSE <<Ch.lbrack>>
        close == IF keyed THEN <<Ch.rbrace>> ELSE <<Ch.rbrack>>
    IN IF Len(kinds) = 1
       THEN open \o Filling(InnerScalars, 1, e, keyed, FALSE) \o close
       ELSE open \o Filling(SiblingScalars, 1, s, keyed, TRUE)
            \o (IF keyed THEN KeyA ELSE <<>>) \o Widen(Tail(kinds), s, e) \o close

\* two decode calls with the same options on inputs of the same nesting that
\* differ in the number of elements and keys
InitWidth ==
    /\ \E kinds \in SeqsUpTo(Kinds, 3), s1 \in {0}, e1 \in {0, 1},
          s2 \in {0, Len(SiblingScalars)}, e2 \in 0..Len(InnerScalars), d \in {2, 3} :
         /\ json = [c \in Calls |-> IF c = 1 THEN Widen(kinds, s1, e1)
                                   ELSE IF c = 2 THEN Widen(kinds, s2, e2) ELSE <<>>]
         /\ options = [c \in Calls |-> with_chromium_extensions(d)]
    /\ Fresh([c \in Calls |-> IF c <= 2 THEN "init" ELSE "off"])
    /\ ffi = [c \in Calls |-> NoFfi]

SpecWidth == InitWidth /\ [][NextBom]_vars

\* the scalar events a deserializer may call a ValueVisitor with: i8 values
\* by their byte, integers at the ends of i32 and of u64, doubles, strings
ScalarEvents ==
    {Event(k, 0, NoError, FALSE, FALSE, Zero4, NoDouble, <<>>) : k \in {"unit", "none"}}
    \cup {Event("bool", 0, NoError, bv, FALSE, Zero4, NoDouble, <<>>) : bv \in BOOLEAN}
    \cup {Event("i8", 0, NoError, FALSE, FALSE, <<byte, 0, 0, 0>>, NoDouble, <<>>) :
             byte \in {0, 127, 128, 255}}
    \cup {Event("i32", 0, NoError, FALSE, FALSE, m, NoDouble, <<>>) : m \in {Zero4, I32Max}}
    \cup {Event(k, 0, NoError, FALSE, TRUE, m, NoDouble, <<>>) :
             k \in {"i32", "i64"}, m \in {<<1, 0, 0, 0>>, <<0, Half, 0, 0>>}}
    \cup {Event("i64", 0, NoError, FALSE, TRUE, m, NoDouble, <<>>) :
             m \in {<<1, Half, 0, 0>>, <<0, 0, 0, Half>>}}
    \cup {Event("u64", 0, NoError, FALSE, FALSE, m, NoDouble, <<>>) :
             m \in {I32Max, <<0, Half, 0, 0>>, <<Base - 1, Base - 1, Base - 1, Base - 1>>}}
    \cup {Event("f64", 0, NoError, FALSE, FALSE, Zero4, d, <<>>) :
             d \in {NoDouble, [NoDouble EXCEPT !.neg = TRUE, !.frac = <<5>>]}}
    \cup {Event(k, 0, NoError, FALSE, FALSE, Zero4, NoDouble, str) :
             k \in {"str", "borrowed_str", "string"},
             str \in {<<>>, <<Ch.a>>, <<Ch.a, Ch.b>>}}

\* the guards of the visitors called: none left, one level, many
ScalarGuards == {0, 1, TestOptions.max_depth - 1}

\* a visitor about to be called, with guard g: on an unset or a used slot, on
\* a list, on a dict with a key that is new or already set, and on a dict
\* inside a list
VisitorStates(g) ==
    LET list == [ListValue EXCEPT !.kids = <<NoneValue>>]
        dict == SetKey(DictValue, <<Ch.a>>, IntegerValue(1))
        nest == [ListValue EXCEPT !.kids = <<dict>>]
        seq(path) == Frame("seq", path, g + 1)
        map(path) == Frame("map", path, g + 1)
    IN {[sink |-> Unset, stack |-> <<>>, container |-> NewValue],
        [sink |-> dict, stack |-> <<>>, container |-> NewValue],
        [sink |-> list, stack |-> <<seq(<<>>)>>, container |-> List(<<>>)],
        [sink |-> dict, stack |-> <<map(<<>>)>>, container |-> Dict(<<>>, <<Ch.a>>)],
        [sink |-> dict, stack |-> <<map(<<>>)>>, container |-> Dict(<<>>, <<Ch.b>>)],
        [sink |-> nest, stack |-> <<Frame("seq", <<>>, g + 2), map(<<1>>)>>,
         container |-> Dict(<<1>>, <<Ch.b>>)]}

\* a deserializer is about to call one scalar method of a ValueVisitor
InitScalars ==
    /\ json = [c \in Calls |-> <<>>]
    /\ options = [c \in Calls |-> TestOptions]
    /\ to_parse = [c \in Calls |-> <<>>]
    /\ index = [c \in Calls |-> 0]
    /\ err = [c \in Calls |-> NoError]
    /\ ops = [c \in Calls |-> <<>>]
    /\ ffi = [c \in Calls |-> NoFfi]
    /\ overflow_checks = TRUE
    /\ pc = [c \in Calls |-> IF c = 1 THEN "visit" ELSE "off"]
    /\ \E ev \in ScalarEvents, g \in ScalarGuards :
         \E v \in VisitorStates(g) :
            /\ event = [c \in Calls |-> IF c = 1 THEN ev ELSE ErrorEvent(0, NoError)]
            /\ visitor = [c \in Calls |-> IF c = 1 THEN ValueVisitor(v.container, g)
                                          ELSE ValueVisitor(NewValue, 0)]
            /\ stack = [c \in Calls |-> IF c = 1 THEN v.stack ELSE <<>>]
            /\ sink = [c \in Calls |-> IF c = 1 THEN v.sink ELSE Unset]

NextScalars ==
    \E c \in Calls :
        \/ VisitUnit(c)
        \/ VisitNone(c)
        \/ VisitBool(c)
        \/ VisitI8(c)
        \/ VisitI32(c)
        \/ VisitI64(c)
        \/ VisitU64(c)
        \/ VisitF64(c)
        \/ VisitStr(c)
        \/ VisitBorrowedStr(c)
        \/ VisitString(c)

SpecScalars == InitScalars /\ [][NextScalars]_vars
\* n times the bytes of unit, one after the other
Repeat(unit, n) == [i \in 1..(n * Len(unit)) |-> unit[((i - 1) % Len(unit)) + 1]]

\* n lists, or n dicts, one inside the other around the scalar 1:
\* [[ ... 1 ... ]] and {"a":{"a": ... 1 ... }}
DeepList(n) == Repeat(<<Ch.lbrack>>, n) \o <<Digit(1)>> \o Repeat(<<Ch.rbrack>>, n)

DeepDict(n) == Repeat(<<Ch.lbrace>> \o KeyA, n) \o <<Digit(1)>> \o Repeat(<<Ch.rbrace>>, n)

\* nestings just below, at and above the tokenizer's own limit
DeepLevels ==
    {TokenizerDepthLimit - 2, TokenizerDepthLimit - 1, TokenizerDepthLimit,
     TokenizerDepthLimit + 1, MaxDeep}

DeepInputs == {DeepList(n) : n \in DeepLevels} \cup {DeepDict(n) : n \in DeepLevels}

\* deep inputs with a max_depth around their nesting and with the largest
\* one, and a few flat inputs with every kind of scalar
DeepCases ==
    {Case(j, [TestOptions EXCEPT !.max_depth = d]) :
        j \in DeepInputs,
        d \in {TokenizerDepthLimit - 1, TokenizerDepthLimit, MaxDeep, MaxDeep + 1, UsizeMax}}
    \cup {Case(j, TestOptions) :
             j \in {InScalars, InMinusZero, InI32Min, InObjA4, InBadInner}}

\* one decode call on a fresh slot, on an input that may be nested deeper
\* than 128 levels
InitDeep ==
    /\ \E cs \in DeepCases :
         /\ json = [c \in Calls |-> IF c = 1 THEN cs.json ELSE <<>>]
         /\ options = [c \in Calls |-> cs.options]
    /\ Fresh([c \in Calls |-> IF c = 1 THEN "init" ELSE "off"])
    /\ ffi = [c \in Calls |-> NoFfi]

SpecDeep == InitDeep /\ [][Next]_vars

\* the containers around the one that is swapped: none, one or two
SwapOuter == {<<>>} \cup SeqsUpTo(Kinds, 2)

\* containers nested as outer, each holding s scalars before its nested
\* container and e scalars after it, around one empty container of a kind
RECURSIVE Swapped(_, _, _, _)
Swapped(outer, kind, s, e) ==
    IF outer = <<>>
    THEN IF kind = "seq" THEN <<Ch.lbrack, Ch.rbrack>> ELSE <<Ch.lbrace, Ch.rbrace>>
    ELSE LET keyed == Head(outer) = "map"
             open == IF keyed THEN <<Ch.lbrace>> ELSE <<Ch.lbrack>>
             close == IF keyed THEN <<Ch.rbrace>> ELSE <<Ch.rbrack>>
         IN open \o Filling(SiblingScalars, 1, s, keyed, TRUE)
            \o (IF keyed THEN KeyA ELSE <<>>) \o Swapped(Tail(outer), kind, s, e)
            \o (IF e = 0 THEN <<>> ELSE <<Ch.comma>>)
            \o Filling(InnerScalars, 1, e, keyed, FALSE) \o close

\* the numbers of scalars before and after the nested container
SwapSiblings == {<<0, 0>>, <<Len(SiblingScalars), 0>>, <<0, Len(InnerScalars)>>}

\* two decode calls with the same options on inputs that differ in one
\* place: an empty list in the first is an empty dict in the second, inside
\* the same containers and between the same siblings
InitSwap ==
    /\ \E outer \in SwapOuter, se \in SwapSiblings, d \in {2, 3, 4} :
         /\ json = [c \in Calls |-> IF c = 1 THEN Swapped(outer, "seq", se[1], se[2])
                                   ELSE IF c = 2 THEN Swapped(outer, "map", se[1], se[2])
                                   ELSE <<>>]
         /\ options = [c \in Calls |-> with_chromium_extensions(d)]
    /\ Fresh([c \in Calls |-> IF c <= 2 THEN "init" ELSE "off"])
    /\ ffi = [c \in Calls |-> NoFfi]

SpecSwap == InitSwap /\ [][NextBom]_vars
(***************************************************************************)
(* Properties.                                                              *)
(***************************************************************************)
RecursionLimit == "recursion limit exceeded"

\* the deepest nesting of brackets in an input: the outermost container is
\* level 1
RECURSIVE MaxOpen(_, _, _, _)
MaxOpen(b, i, cur, max) ==
    IF i > Len(b) THEN max
    ELSE IF b[i] = Ch.lbrack \/ b[i] = Ch.lbrace
    THEN MaxOpen(b, i + 1, cur + 1, IF cur + 1 > max THEN cur + 1 ELSE max)
    ELSE IF b[i] = Ch.rbrack \/ b[i] = Ch.rbrace THEN MaxOpen(b, i + 1, cur - 1, max)
    ELSE MaxOpen(b, i + 1, cur, max)

NestDepth(b) == MaxOpen(b, 1, 0, 0)

\* the input holds an empty dict
HasEmptyDict(b) == \E i \in 1..(Len(b) - 1) : b[i] = Ch.lbrace /\ b[i + 1] = Ch.rbrace

\* a call on nested containers with a max_depth of at least 2 has returned
NestReturned(c) ==
    /\ json[c] \in NestInputs
    /\ options[c].max_depth >= 2
    /\ pc[c] \in Returned

FailedOnDepth(c) == pc[c] = "err" /\ err[c].msg = RecursionLimit

\* C1 as stated: containers nested k levels deep decode when k = max_depth and
\* fail with the recursion-limit error when k = max_depth + 1, for lists,
\* dicts and mixtures, with the innermost container empty or holding a scalar.
C1_AsStated ==
    \A c \in Calls :
        NestReturned(c) =>
            LET k == NestDepth(json[c])
                D == options[c].max_depth
            IN /\ k = D => pc[c] = "ok"
               /\ k = D + 1 => FailedOnDepth(c)

(***************************************************************************)
(* What a call has done in a step, and what it has issued.                  *)
(***************************************************************************)
\* the call has taken the step
Moved(c) == pc'[c] # pc[c] \/ index'[c] # index[c] \/ stack'[c] # stack[c]
            \/ ops'[c] # ops[c] \/ sink'[c] # sink[c] \/ err'[c] # err[c]
            \/ event'[c] # event[c] \/ visitor'[c] # visitor[c]

\* the step has issued exactly one sink operation, the last of ops'
OneWrite(c) ==
    /\ Len(ops'[c]) = Len(ops[c]) + 1
    /\ SubSeq(ops'[c], 1, Len(ops[c])) = ops[c]

LastOp(c) == ops'[c][Len(ops'[c])]

\* max_depth is at least 2 (a negative number stands for one near 2^64)
DepthInContract(c) == options[c].max_depth >= 2 \/ options[c].max_depth < 0

\* a magnitude of four limbs is at most another
MagLeq(m, k) ==
    \/ m[4] < k[4]
    \/ m[4] = k[4] /\ m[3] < k[3]
    \/ m[4] = k[4] /\ m[3] = k[3] /\ m[2] < k[2]
    \/ m[4] = k[4] /\ m[3] = k[3] /\ m[2] = k[2] /\ m[1] <= k[1]

TwoTo31 == <<0, 32768, 0, 0>>
TwoTo31Minus1 == <<65535, 32767, 0, 0>>
TwoTo31Plus1 == <<1, 32768, 0, 0>>

\* -2^31 <= n <= 2^31 - 1
InI32Range(neg, m) == IF neg THEN MagLeq(m, TwoTo31) ELSE MagLeq(m, TwoTo31Minus1)

\* C2: an i64 or u64 event is never an error and issues exactly one write on
\* the visitor's target: the 32-bit integer n when -2^31 <= n <= 2^31 - 1, the
\* double nearest to n (n as f64) otherwise; 2^31 - 1 and -2^31 are written as
\* integers, 2^31 and -2^31 - 1 as the doubles of the same value.
C2_IntegerEvents ==
    [][\A c \in Calls :
          (pc[c] = "visit" /\ event[c].kind \in {"i64", "u64"} /\ Moved(c)) =>
              LET neg == event[c].neg
                  m == event[c].mag
              IN /\ pc'[c] = Resume(stack[c])
                 /\ err'[c] = err[c]
                 /\ OneWrite(c)
                 /\ LastOp(c).target = visitor[c].container
                 /\ IF InI32Range(neg, m)
                    THEN LastOp(c).node =
                             IntegerValue(IF neg THEN (0 - m[2]) * Base - m[1]
                                          ELSE m[2] * Base + m[1])
                    ELSE LastOp(c).node = DoubleValue(AsF64(neg, m))
                 /\ (m = TwoTo31Minus1 /\ ~neg) => LastOp(c).node = IntegerValue(2147483647)
                 /\ (m = TwoTo31 /\ neg) => LastOp(c).node = IntegerValue((0 - Half) * Base)
                 /\ (m = TwoTo31 /\ ~neg) =>
                        LastOp(c).node =
                            DoubleValue([neg |-> FALSE, mag |-> <<0, 32768, 0, 0, 0>>,
                                         huge |-> FALSE,
                                         frac |-> <<>>])
                 /\ (m = TwoTo31Plus1 /\ neg) =>
                        LastOp(c).node =
                            DoubleValue([neg |-> TRUE, mag |-> <<1, 32768, 0, 0, 0>>,
                                         huge |-> FALSE,
                                         frac |-> <<>>])
      ]_vars

\* 2^31 has been appended to a list as a double
C2_Witness ==
    \E c \in Calls :
        /\ json[c] = InI32MaxPlus1
        /\ Len(ops[c]) = 2
        /\ ops[c][2].target.kind = "List"
        /\ ops[c][2].node.t = "double"
        /\ ops[c][2].node.d.mag = <<0, 32768, 0, 0, 0>>

\* the outcome of a call: how it returned, the tree in its slot, its error
Outcome(c) == <<pc[c], sink[c], err[c]>>

BothReturned == pc[1] \in Returned /\ pc[2] \in Returned

StartsWithBom(b) == Len(b) >= 3 /\ SubSeq(b, 1, 3) = UTF8_BOM

\* C3 as stated: for every input s and option set, decode(BOM ++ s) has the
\* outcome of decode(s): the same tree, or the same error line, column and
\* message.
C3_AsStated == BothReturned => Outcome(2) = Outcome(1)

\* C3, amended: for every input s that does not itself begin with the BOM,
\* and every option set, decode(BOM ++ s) has the outcome of decode(s).
C3_BomTransparent ==
    (BothReturned /\ ~StartsWithBom(json[1])) => Outcome(2) = Outcome(1)

\* [1,2] with a BOM in front has decoded to the list that [1,2] decodes to
C3_Witness ==
    /\ json[1] = InList12
    /\ json[2] = UTF8_BOM \o InList12
    /\ pc[2] = "ok"
    /\ Len(sink[2].kids) = 2
    /\ sink[2] = sink[1]

IsWhitespace(x) == x \in {32, 10, 9, 13}

\* the bytes the tokenizer has not consumed
Rest(c) == SubSeq(to_parse[c], index[c] + 1, Len(to_parse[c]))

HasSlash(b) == \E i \in 1..Len(b) : b[i] = 47

C5_FailFast ==
    [][\A c \in Calls :
          /\ (/\ pc[c] = "seq"
              /\ Top(stack[c]).recursion_depth_check = 0
              /\ Moved(c)) =>
                 /\ pc'[c] = "unwind"
                 /\ err'[c].msg = RecursionLimit
          /\ (/\ pc[c] = "map"
              /\ Top(stack[c]).recursion_depth_check = 0
              /\ Moved(c)) =>
                 /\ pc'[c] # "value"
          /\ pc[c] = "unwind" =>
                 /\ pc'[c] \in {"unwind", "err"}
                 /\ err'[c].msg = err[c].msg
          /\ pc[c] \in {"unwind", "seq", "map"} /\ pc'[c] \in {"unwind", "err"} =>
                 /\ ops'[c] = ops[c]
                 /\ sink'[c] = sink[c]
          /\ pc[c] \in Returned => ~Moved(c)
      ]_vars

\* the recursion-limit error is propagating out of a container two levels
\* down, with the containers above it written
C5_Witness ==
    \E c \in Calls :
        /\ pc[c] = "unwind"
        /\ err[c].msg = RecursionLimit
        /\ Len(stack[c]) >= 2
        /\ Len(ops[c]) >= 2

\* the tree that a sequence of sink operations builds in an empty slot
RECURSIVE Replay(_)
Replay(log) ==
    IF log = <<>> THEN Unset
    ELSE LET last == log[Len(log)]
         IN Place(Replay(SubSeq(log, 1, Len(log) - 1)), last.target, last.node)

\* C6: nothing is rolled back: the slot always holds exactly what the
\* operations issued so far have built, operations are only ever added, and
\* a step towards the error return leaves both as they are.
C6_NoRollback ==
    [][\A c \in Calls :
          /\ Len(ops'[c]) >= Len(ops[c])
          /\ SubSeq(ops'[c], 1, Len(ops[c])) = ops[c]
          /\ sink'[c] = Replay(ops'[c])
          /\ pc'[c] \in {"unwind", "err"} =>
                 /\ ops'[c] = ops[c]
                 /\ sink'[c] = sink[c]
      ]_vars

\* [1,[2,x]] has failed, and the slot holds [1,[2]]
C6_Witness ==
    \E c \in Calls :
        /\ json[c] = InBadInner
        /\ pc[c] = "err"
        /\ Len(ops[c]) = 4
        /\ sink[c].t = "list"
        /\ Len(sink[c].kids) = 2
        /\ sink[c].kids[2].kids = <<IntegerValue(2)>>

\* the guard of one of the call's actions holds: every action is total on
\* its guard
Runnable(c) ==
    \/ pc[c] \in {"init", "value", "unwind", "end"}
    \/ /\ pc[c] = "visit"
       /\ event[c].kind \in {"unit", "bool", "i64", "u64", "f64", "str", "seq", "map"}
    \/ /\ pc[c] \in {"seq", "map"}
       /\ stack[c] # <<>>
       /\ Top(stack[c]).kind = pc[c]

\* C7: with max_depth >= 2 no call panics, whatever the input: the BOM test
\* never slices past the end, the depth arithmetic never overflows (every
\* open frame at level j holds the guard max_depth - j, the waiting visitor
\* at most max_depth - 1), and a call that has not returned can take a step.
C7_NoPanic ==
    \A c \in Calls :
        DepthInContract(c) =>
            /\ pc[c] # "panic"
            /\ \A j \in 1..Len(stack[c]) :
                   stack[c][j].recursion_depth_check = options[c].max_depth - j
            /\ pc[c] \in {"value", "visit"} =>
                   /\ visitor[c].recursion_depth_check < options[c].max_depth
                   /\ options[c].max_depth >= 2 => visitor[c].recursion_depth_check >= 0
            /\ pc[c] \notin Returned \cup {"off"} => Runnable(c)

\* an input shorter than the BOM has been decoded or refused, without a panic
C7_Witness ==
    \E c \in Calls :
        /\ Len(json[c]) \in {1, 2}
        /\ options[c].max_depth = 2
        /\ pc[c] \in {"ok", "err"}

\* the tree of a list of 32-bit integers
ListOf(ns) == [ListValue EXCEPT !.kids = [i \in 1..Len(ns) |-> IntegerValue(ns[i])]]

\* the tree of the dict {"a": n}
DictA(n) == [DictValue EXCEPT !.keys = <<(<<97>>)>>, !.kids = <<IntegerValue(n)>>]

\* C8: with allow_trailing_commas false [1,2,] and {"a":1,} are refused with
\* the trailing-comma error; with it true they decode, to a list of exactly
\* the two elements 1 and 2 and to a dict of exactly the one member a.
C8_TrailingCommas ==
    \A c \in Calls :
        (/\ json[c] \in {InList12Comma, InObjA1Comma}
         /\ DepthInContract(c)
         /\ pc[c] \in Returned) =>
            IF options[c].allow_trailing_commas
            THEN /\ pc[c] = "ok"
                 /\ sink[c] = IF json[c] = InList12Comma THEN ListOf(<<1, 2>>)
                              ELSE DictA(1)
            ELSE /\ pc[c] = "err"
                 /\ err[c].msg = "trailing comma"

\* [1,2,] has decoded to a list of two elements
C8_Witness ==
    \E c \in Calls :
        /\ json[c] = InList12Comma
        /\ options[c].allow_trailing_commas
        /\ pc[c] = "ok"
        /\ Len(sink[c].kids) = 2

WithComment == {InObjBlockComment, InListLineComment}

WithoutComment == {InObjNoComment, InListNoComment}

\* C9: with allow_comments true a block comment or a line comment between
\* tokens changes nothing: the input decodes to the tree of the same input
\* without the comment; with allow_comments false the comment is an error.
C9_Comments ==
    \A c \in Calls :
        (/\ json[c] \in WithComment \cup WithoutComment
         /\ DepthInContract(c)
         /\ pc[c] \in Returned) =>
            IF options[c].allow_comments \/ json[c] \in WithoutComment
            THEN /\ pc[c] = "ok"
                 /\ sink[c] = IF json[c] \in {InObjBlockComment, InObjNoComment}
                              THEN DictA(1) ELSE ListOf(<<1, 2>>)
            ELSE /\ pc[c] = "err"
                 /\ err[c].msg # RecursionLimit

\* the object with a block comment has decoded to {"a": 1}
C9_Witness ==
    \E c \in Calls :
        /\ json[c] = InObjBlockComment
        /\ options[c].allow_comments
        /\ pc[c] = "ok"
        /\ sink[c].keys = <<(<<97>>)>>

\* C10: with every extension off and max_depth 128, a one-level object of
\* 32-bit integer members decodes: the call returns Ok, the slot holds a dict
\* of the key to the integer, and the only operations issued are the dict's
\* construction and the member's set_integer_key.
C10_FlatObject ==
    \A c \in Calls :
        LET n == IF json[c] = InObjA4 THEN 4
                 ELSE IF json[c] = InObjA1 THEN 1 ELSE (0 - Half) * Base
        IN (/\ json[c] \in {InObjA4, InObjA1, InObjNoComment, InI32Min}
            /\ options[c] = TestOptions
            /\ pc[c] \in Returned) =>
               /\ pc[c] = "ok"
               /\ sink[c] = DictA(IF json[c] = InObjNoComment THEN 1 ELSE n)
               /\ ops[c] = <<SinkOp(NewValue, DictValue),
                             SinkOp(Dict(<<>>, <<97>>), sink[c].kids[1])>>

\* { "a": 4 } has decoded under the test's options
C10_Witness ==
    \E c \in Calls :
        /\ json[c] = InObjA4
        /\ options[c] = TestOptions
        /\ pc[c] = "ok"
        /\ sink[c].kids = <<IntegerValue(4)>>

\* the option set the constructor is to return for a max_depth
ChromiumExtensions(m) ==
    [ allow_trailing_commas |-> FALSE, replace_invalid_characters |-> FALSE,
      allow_comments |-> TRUE, allow_control_chars |-> TRUE,
      allow_vert_tab |-> TRUE, allow_x_escapes |-> TRUE, max_depth |-> m ]

\* C11: for every max_depth m that a call is made with, 0 and 1 included,
\* with_chromium_extensions(m) is the option set with trailing commas and
\* replacement of invalid characters off, comments, control characters,
\* vertical tabs and \x escapes on, and max_depth = m, unvalidated.
C11_ChromiumExtensions ==
    \A c \in Calls :
        with_chromium_extensions(options[c].max_depth)
            = ChromiumExtensions(options[c].max_depth)

\* a call made with with_chromium_extensions(1) has returned
C11_Witness ==
    \E c \in Calls :
        /\ options[c] = ChromiumExtensions(1)
        /\ options[c] = with_chromium_extensions(1)
        /\ pc[c] \in Returned

Own(c) ==
    <<pc[c], to_parse[c], index[c], visitor[c], event[c], stack[c], sink[c], ops[c],
      err[c]>>

\* C13: whatever the interleaving of two calls on their own slots, the first
\* returns what the same call returns when run alone (same result, same
\* error, same slot content, same operations on the slot, same bytes
\* consumed), and a step of one call changes nothing that another call owns
C13_NoInterference ==
    /\ []((\A c \in Calls : pc[c] \in Returned) => Own(1) = Own(3))
    /\ [][\E c \in Calls : \A d \in Calls \ {c} : Own(d)' = Own(d)]_vars

\* two different calls were both under way at once, the first having written a
\* list into its slot and the second a dict
C13_Witness ==
    /\ json[1] = InWide
    /\ json[2] = InDupKey
    /\ pc[1] = "seq"
    /\ pc[2] = "map"
    /\ Len(ops[1]) = 3
    /\ Len(ops[2]) = 2
    /\ pc[3] = "init"
\* the value of a count held as limbs when it is at most 2^31 - 1, else -1
ClampI32(m) == IF MagLeq(m, TwoTo31Minus1) THEN m[2] * Base + m[1] ELSE 0 - 1

\* C14: once decode_json_from_cpp has returned, it returned true exactly
\* when decode_json succeeded; after a failure error_line and error_column
\* hold the error's line and column, or -1 for one above 2^31 - 1, and the
\* message buffer holds the error's text and nothing else
C14_FromCpp ==
    \A c \in Calls :
        (ffi[c].via /\ ffi[c].ret # "none") =>
            /\ pc[c] \in {"ok", "err"}
            /\ ffi[c].ret = (IF pc[c] = "ok" THEN "true" ELSE "false")
            /\ pc[c] = "err" =>
                 /\ err[c] # NoError
                 /\ ffi[c].error_line = ClampI32(ErrLine(err[c], ffi[c]))
                 /\ ffi[c].error_column = ClampI32(ErrColumn(err[c], ffi[c]))
                 /\ Len(ffi[c].error_message) = 1
                 /\ ffi[c].error_message[1].msg = err[c].msg

\* a failed call whose error lies on line 2^31 (reported as -1) in column
\* 2^31 - 1 (reported as such): [1 // c<nl>,2] read without comments fails at
\* the slash, line 1 column 4 of the input proper
C14_Witness ==
    /\ ffi[1].ret = "false"
    /\ json[1] = InListLineComment
    /\ err[1].line = 1
    /\ ffi[1].newlines = I32Max
    /\ ffi[1].error_line = 0 - 1
    /\ ffi[1].error_column > 0
    /\ ffi[1].error_message = <<ErrToString(err[1], ffi[1])>>
\* the bytes a call has still to read
Remaining(c) == Len(to_parse[c]) - index[c]

\* how far a call is from returning: nothing once returned; while an error
\* unwinds, the open containers; before that, four per byte still to read
\* plus the place in the cycle around one value (a visit, then the loop of a
\* container, then the next value), always above any unwinding
Measure(c) ==
    IF pc[c] \in Returned THEN 0
    ELSE IF pc[c] = "unwind" THEN Len(stack[c]) + 1
    ELSE IF pc[c] = "init" THEN 5 * Len(json[c]) + 6
    ELSE Len(to_parse[c]) + 2 + 4 * Remaining(c)
         + (IF pc[c] = "visit" THEN 3
            ELSE IF pc[c] \in {"seq", "map"} THEN 2
            ELSE IF pc[c] = "value" THEN 1
            ELSE 0)

\* C15: every step of a decode call brings it nearer to its return, by a
\* measure that is never negative and is zero only once it has returned, so
\* a scheduled call returns after at most Measure steps; the read position
\* only moves forward and stays within the input (one pass), a step that
\* reads nothing moves on in the cycle of its value, and a returned call
\* takes no further step
C15_Terminates ==
    [][/\ Measure(1)' < Measure(1)
       /\ Measure(1)' >= 0
       /\ (Measure(1)' = 0) = (pc'[1] \in Returned)
       /\ index'[1] >= index[1]
       /\ index'[1] <= Len(to_parse'[1])]_vars

\* a list of three containers was decoded to its last byte
C15_Witness ==
    /\ json[1] = InWide
    /\ pc[1] = "ok"
    /\ index[1] = Len(json[1])
    /\ stack[1] = <<>>
\* the place of the last construct_* among the operations on a slot
RECURSIVE LastConstruct(_)
LastConstruct(log) ==
    IF log = <<>> THEN 0
    ELSE IF log[Len(log)].target = NewValue THEN Len(log)
    ELSE LastConstruct(SubSeq(log, 1, Len(log) - 1))

\* the tree that a list of operations builds when no construct_* is among
\* them but the first, written out without Place
RECURSIVE Built(_)
Built(log) ==
    IF Len(log) = 1 THEN log[1].node
    ELSE LET last == log[Len(log)]
             tree == Built(SubSeq(log, 1, Len(log) - 1))
             at == NodeAt(tree, last.target.path)
         IN UpdateAt(tree, last.target.path,
                     IF last.target.kind = "List" THEN AppendChild(at, last.node)
                     ELSE SetKey(at, last.target.key, last.node))

\* C16: whatever was done on a slot before, its content is what the last
\* construct_* and the writes made after it through its handles build on
\* their own; right after a construct_* it is exactly the value constructed
C16_ConstructReplaces ==
    \A c \in Calls :
        (pc[c] = "api" /\ ops[c] # <<>>) =>
            LET k == LastConstruct(ops[c])
            IN /\ k >= 1
               /\ sink[c] = Built(SubSeq(ops[c], k, Len(ops[c])))
               /\ k = Len(ops[c]) => sink[c] = ops[c][k].node

\* construct_none, construct_dict, set_integer_key("a", 3), then
\* construct_integer(7): the slot holds 7
C16_Witness ==
    /\ pc[1] = "api"
    /\ Len(ops[1]) = 4
    /\ ops[1][1] = SinkOp(NewValue, NoneValue)
    /\ ops[1][2] = SinkOp(NewValue, DictValue)
    /\ ops[1][3] = SinkOp(Dict(<<>>, <<Ch.a>>), IntegerValue(3))
    /\ ops[1][4] = SinkOp(NewValue, IntegerValue(7))
    /\ sink[1] = IntegerValue(7)
    /\ stack[1] = <<>>
\* a list with the given children
Holding(kids) == [ListValue EXCEPT !.kids = kids]

\* C17: every append made by a call puts its value after the children the
\* list already has and changes nothing else in the tree, and a decoded
\* array holds the values of its elements in the order of the input, scalars
\* and nested containers alike
C17_ListOrder ==
    /\ [][\A c \in Calls :
            (OneWrite(c) /\ LastOp(c).target.kind = "List") =>
                LET path == LastOp(c).target.path
                    was == NodeAt(sink[c], path)
                IN /\ was.t = "list"
                   /\ NodeAt(sink'[c], path).kids = Append(was.kids, LastOp(c).node)
                   /\ sink'[c] = UpdateAt(sink[c], path,
                                          [was EXCEPT !.kids = Append(@, LastOp(c).node)])]_vars
    /\ [](\A c \in Calls :
            pc[c] = "ok" =>
                /\ json[c] = InList12 => sink[c] = ListOf(<<1, 2>>)
                /\ json[c] = InScalars =>
                     sink[c] = Holding(<<NoneValue, BoolValue(TRUE), BoolValue(FALSE),
                                         StringValue(<<Ch.a, Ch.b>>)>>)
                /\ json[c] = InWide =>
                     sink[c] = Holding(<<ListOf(<<1>>),
                                         Holding(<<IntegerValue(2), ListOf(<<3>>)>>),
                                         DictValue>>))

\* [[1],[2,[3]],{}] was decoded: three children, the second a list of two
C17_Witness ==
    /\ json[1] = InWide
    /\ pc[1] = "ok"
    /\ Len(sink[1].kids) = 3
    /\ Len(sink[1].kids[2].kids) = 2
    /\ sink[1].kids[3].t = "dict"
\* the keys a dump shows, in the order it shows them: the quoted texts (of a
\* dump without string values and without escapes in its keys)
RECURSIVE KeysInDump(_, _, _, _)
KeysInDump(text, i, open, key) ==
    IF i > Len(text) THEN <<>>
    ELSE IF text[i] = Ch.quote
    THEN IF open THEN <<key>> \o KeysInDump(text, i + 1, FALSE, <<>>)
         ELSE KeysInDump(text, i + 1, TRUE, <<>>)
    ELSE KeysInDump(text, i + 1, open, IF open THEN Append(key, text[i]) ELSE key)

\* the keys of the set_*_key calls in a list of operations, in call order
RECURSIVE KeysSet(_)
KeysSet(log) ==
    IF log = <<>> THEN <<>> ELSE <<Head(log).target.key>> \o KeysSet(Tail(log))

\* a slot on which construct_dict was called and then only set_*_key on the
\* dict it gave, with distinct keys
DictFilled(c) ==
    /\ pc[c] = "api"
    /\ LastConstruct(ops[c]) >= 1
    /\ ops[c][LastConstruct(ops[c])].node = DictValue
    /\ \A i \in LastConstruct(ops[c]) + 1..Len(ops[c]) :
         /\ ops[c][i].target.kind = "Dict"
         /\ ops[c][i].target.path = <<>>
         /\ \A j \in LastConstruct(ops[c]) + 1..Len(ops[c]) :
              ops[c][i].target.key = ops[c][j].target.key => i = j

\* the keys set on such a slot, in call order
CallOrder(c) == KeysSet(SubSeq(ops[c], LastConstruct(ops[c]) + 1, Len(ops[c])))

\* C18 as stated: the dump lists the keys in the order of the set_*_key calls
C18_AsStated ==
    \A c \in Calls : DictFilled(c) => KeysInDump(Dump(sink[c]), 1, FALSE, <<>>) = CallOrder(c)

\* C18, amended: the dump lists the keys that were set, each once, in
\* ascending byte order, whatever the order of the set_*_key calls
C18_SortedKeys ==
    \A c \in Calls :
        DictFilled(c) =>
            LET shown == KeysInDump(Dump(sink[c]), 1, FALSE, <<>>)
                set == CallOrder(c)
            IN /\ Len(shown) = Len(set)
               /\ {shown[i] : i \in 1..Len(shown)} = {set[i] : i \in 1..Len(set)}
               /\ \A i \in 1..Len(shown) - 1 : KeyLess(shown[i], shown[i + 1])

\* the keys b, ab and a were set in that order and the dump shows a, ab, b
C18_Witness ==
    /\ DictFilled(1)
    /\ CallOrder(1) = <<(<<Ch.b>>), <<Ch.a, Ch.b>>, <<Ch.a>>>>
    /\ KeysInDump(Dump(sink[1]), 1, FALSE, <<>>) = <<(<<Ch.a>>), <<Ch.a, Ch.b>>, <<Ch.b>>>>
\* the guards a call holds: the waiting visitor's and one per open container
Guards(c) ==
    (IF pc[c] \in {"value", "visit"} THEN {visitor[c].recursion_depth_check} ELSE {})
    \cup {stack[c][k].recursion_depth_check : k \in 1..Len(stack[c])}

\* C19: on every guard a call holds, recurse() gives the guard one lower when
\* the guard is not 0, and at 0 the recursion-limit error and no guard of
\* usize::MAX; a turn of a container's loop, which calls recurse() on the
\* container's guard, leaves that guard as it was and hands the lowered one
\* to the child's visitor
C19_Recurse ==
    /\ [](\A c \in Calls : \A g \in Guards(c) :
            /\ g # 0 => recurse(g) = [ok |-> TRUE, guard |-> g - 1, err |-> NoError]
            /\ g = 0 => /\ ~recurse(g).ok
                        /\ recurse(g).guard # UsizeMax
                        /\ recurse(g).err.msg = RecursionLimit)
    /\ [][\A c \in Calls :
            (pc[c] \in {"seq", "map"} /\ Moved(c)) =>
                LET g == Top(stack[c]).recursion_depth_check
                IN /\ Len(stack'[c]) = Len(stack[c]) =>
                        Top(stack'[c]).recursion_depth_check = g
                   /\ pc'[c] = "value" =>
                        /\ g # 0
                        /\ visitor'[c].recursion_depth_check = g - 1]_vars

\* [[[1]]] with max_depth 2: the outer list holds guard 1, the inner one the
\* guard 0 that recurse() gave, and recurse() on that failed
C19_Witness ==
    /\ pc[1] = "unwind"
    /\ err[1].msg = RecursionLimit
    /\ Len(stack[1]) = 2
    /\ stack[1][1].recursion_depth_check = 1
    /\ stack[1][2].recursion_depth_check = 0
    /\ ~recurse(0).ok
    /\ recurse(1).guard = 0
\* each open container holds the guard of the one around it less one, however
\* many children were visited before it was opened, and keeps it while it is
\* open
GuardPerLevel(c) ==
    \A k \in 1..Len(stack[c]) :
        stack[c][k].recursion_depth_check = options[c].max_depth - k

\* C20 as stated: each child's visitor gets the guard of its container less
\* one, a container's guard never changes, and of two inputs of the same
\* nesting depth decoded with the same options either both are rejected by
\* the recursion limit or neither is, whatever their numbers of elements
\* and keys
C20_AsStated ==
    /\ \A c \in Calls :
         /\ GuardPerLevel(c)
         /\ (pc[c] \in {"value", "visit"} /\ stack[c] # <<>>) =>
                visitor[c].recursion_depth_check = Top(stack[c]).recursion_depth_check - 1
    /\ (/\ BothReturned
        /\ options[1] = options[2]
        /\ NestDepth(json[1]) = NestDepth(json[2])) =>
           FailedOnDepth(1) = FailedOnDepth(2)
\* decode_json has been entered by the call
Started(c) == pc[c] \in {"value", "visit", "seq", "map", "unwind", "end", "ok", "err", "panic"}

\* C21: for every max_depth of at least 2, up to usize::MAX, neither
\* max_depth - 2 nor the + 1 of ValueVisitor::new leaves the range of usize,
\* so decode_json does not panic on them in any build, and the root visitor
\* it hands to the tokenizer holds the guard max_depth - 1 exactly
C21_RootGuard ==
    /\ [](\A c \in Calls :
            DepthInContract(c) =>
                LET arg == DepthArgument(options[c])
                    new == ValueVisitorNew(arg.val)
                IN /\ ~arg.overflow
                   /\ ~new.overflow
                   /\ arg.val = options[c].max_depth - 2
                   /\ (options[c].max_depth >= 2) = (arg.val >= 0)
                   /\ (arg.val >= 0) = (new.val >= 1)
                   /\ pc[c] # "panic"
                   /\ (Started(c) /\ visitor[c].container = NewValue) =>
                          visitor[c].recursion_depth_check = options[c].max_depth - 1)
    /\ [][\A c \in Calls :
            (pc[c] = "init" /\ Moved(c) /\ DepthInContract(c)) =>
                /\ pc'[c] = "value"
                /\ visitor'[c] = ValueVisitor(NewValue, options[c].max_depth - 1)]_vars

\* decode_json has built the root visitor for a max_depth of usize::MAX: its
\* guard is usize::MAX - 1
C21_Witness ==
    /\ pc[1] = "value"
    /\ index[1] = 0
    /\ options[1].max_depth = UsizeMax
    /\ visitor[1] = ValueVisitor(NewValue, UsizeMax - 1)
    /\ overflow_checks

\* C22: in a decode with max_depth D >= 2, the visitor given a value at
\* nesting level k (k containers are open around the value) holds the guard
\* D - 1 - k, every open container keeps the guard of the visitor that opened
\* it (D - k for the k-th, which stands at level k - 1), and no guard is
\* below 0: for a D near 2^64 it stays near 2^64, it does not wrap
C22_RemainingDepth ==
    \A c \in Calls :
        (DepthInContract(c) /\ Started(c)) =>
            LET D == options[c].max_depth
            IN /\ \A k \in 1..Len(stack[c]) :
                    stack[c][k].recursion_depth_check = D - 1 - (k - 1)
               /\ pc[c] \in {"value", "visit"} =>
                    visitor[c].recursion_depth_check = D - 1 - Len(stack[c])
               /\ \A g \in Guards(c) : IF D >= 2 THEN g >= 0 /\ g <= D - 1
                                        ELSE g < 0 /\ g <= D - 1

\* {"a":[{"a":1}]} with max_depth 4: the visitor called with the 1 at level 3
\* holds the guard 0, the three containers around it 3, 2 and 1
C22_Witness ==
    /\ json[1] = Nested(<<"map", "seq", "map">>, TRUE)
    /\ options[1].max_depth = 4
    /\ pc[1] = "visit"
    /\ event[1].kind = "u64"
    /\ Len(stack[1]) = 3
    /\ visitor[1].recursion_depth_check = 0
    /\ stack[1][1].recursion_depth_check = 3
    /\ stack[1][3].recursion_depth_check = 1

\* the key of a Dict target stands quoted in the input before the read
\* position, with no other string between it and that position (for keys
\* written without escapes)
KeyJustRead(c, key) ==
    \E j \in 1..index[c] :
        /\ j + Len(key) + 1 <= index[c]
        /\ to_parse[c][j] = Ch.quote
        /\ SubSeq(to_parse[c], j + 1, j + Len(key)) = key
        /\ to_parse[c][j + Len(key) + 1] = Ch.quote
        /\ \A i \in (j + Len(key) + 2)..index[c] : to_parse[c][i] # Ch.quote

\* the target that a visitor created by the innermost open container has
TargetOfTop(c) ==
    LET top == Top(stack[c])
    IN [kind |-> IF top.kind = "seq" THEN "List" ELSE "Dict", path |-> top.value]

\* C23: the visitor in use has the target NewValue exactly when no container
\* is open (the root visitor), and exactly one operation of a call, its
\* first, goes to the slot; otherwise its target is the List or Dict bound to
\* the handle of the innermost open container, a list for a sequence and a
\* dict for a map, with the key just read; each handle is a direct child of
\* the handle of the container around it; and every write changes the tree
\* at its target's container only, by one append or one set
C23_Targets ==
    /\ [](\A c \in Calls :
            Started(c) =>
                /\ \A i \in 1..Len(ops[c]) : (ops[c][i].target = NewValue) = (i = 1)
                /\ \A k \in 1..Len(stack[c]) :
                     /\ NodeAt(sink[c], stack[c][k].value).t
                            = (IF stack[c][k].kind = "seq" THEN "list" ELSE "dict")
                     /\ stack[c][k].value
                            = (IF k = 1 THEN <<>>
                               ELSE Append(stack[c][k - 1].value,
                                           stack[c][k].value[Len(stack[c][k].value)]))
                /\ pc[c] \in {"value", "visit"} =>
                     IF stack[c] = <<>> THEN visitor[c].container = NewValue
                     ELSE /\ visitor[c].container.kind = TargetOfTop(c).kind
                          /\ visitor[c].container.path = TargetOfTop(c).path
                          /\ visitor[c].container.kind = "Dict" =>
                                 KeyJustRead(c, visitor[c].container.key))
    /\ [][\A c \in Calls :
            ops'[c] # ops[c] =>
                /\ OneWrite(c)
                /\ pc[c] = "visit"
                /\ LastOp(c).target = visitor[c].container
                /\ IF stack[c] = <<>> THEN sink'[c] = LastOp(c).node
                   ELSE LET path == Top(stack[c]).value
                            was == NodeAt(sink[c], path)
                        IN /\ LastOp(c).target.path = path
                           /\ sink'[c] = UpdateAt(sink[c], path,
                                  IF Top(stack[c]).kind = "seq"
                                  THEN AppendChild(was, LastOp(c).node)
                                  ELSE SetKey(was, LastOp(c).target.key, LastOp(c).node))]_vars

\* [[1],[2,[3]],{}]: the 3 is about to be appended through the handle of the
\* innermost list, the second child of the second child of the slot's list
C23_Witness ==
    /\ json[1] = InWide
    /\ pc[1] = "visit"
    /\ event[1].kind = "u64"
    /\ Len(stack[1]) = 3
    /\ stack[1][3].value = <<2, 2>>
    /\ visitor[1].container = List(<<2, 2>>)
    /\ ops[1][1].target = NewValue
    /\ Len(ops[1]) = 6

\* the empty container of a frame's kind
EmptyOf(kind) == IF kind = "seq" THEN ListValue ELSE DictValue

\* C24: the step that handles a sequence-start or map-start event issues one
\* write, of the empty list or dict, on the visitor's target, and raises no
\* error: the handle it keeps leads to that empty container in the sink when
\* the container's loop begins, and recurse() is called only in the loop.
\* So whenever recurse() has just failed, the container whose child it was
\* for is in the sink and empty, and a call that returns the recursion-limit
\* error leaves a container in its slot
C24_ContainerFirst ==
    /\ [][\A c \in Calls :
            (pc[c] = "visit" /\ event[c].kind \in {"seq", "map"} /\ Moved(c)) =>
                /\ OneWrite(c)
                /\ LastOp(c) = SinkOp(visitor[c].container, EmptyOf(event[c].kind))
                /\ pc'[c] = event[c].kind
                /\ err'[c] = err[c]
                /\ Len(stack'[c]) = Len(stack[c]) + 1
                /\ Top(stack'[c]).recursion_depth_check = visitor[c].recursion_depth_check
                /\ NodeAt(sink'[c], Top(stack'[c]).value) = EmptyOf(event[c].kind)]_vars
    /\ [](\A c \in Calls :
            /\ (pc[c] = "unwind" /\ err[c] = custom(RecursionLimit)) =>
                  /\ stack[c] # <<>>
                  /\ Top(stack[c]).recursion_depth_check = 0
                  /\ NodeAt(sink[c], Top(stack[c]).value) = EmptyOf(Top(stack[c]).kind)
            /\ FailedOnDepth(c) => sink[c].t \in {"list", "dict"})

\* [{"a":1}] with max_depth 2 has failed on the dict's first member: the slot
\* holds the list with the empty dict in it
C24_Witness ==
    /\ json[1] = Nested(<<"seq", "map">>, TRUE)
    /\ options[1].max_depth = 2
    /\ FailedOnDepth(1)
    /\ sink[1] = Holding(<<DictValue>>)
    /\ Len(ops[1]) = 2

ScalarKinds ==
    {"unit", "none", "bool", "i8", "i32", "i64", "u64", "f64", "str", "borrowed_str",
     "string"}

\* the value that a scalar event stands for
ScalarOf(ev) ==
    LET small == IF ev.neg THEN (0 - ev.mag[2]) * Base - ev.mag[1]
                 ELSE ev.mag[2] * Base + ev.mag[1]
    IN IF ev.kind \in {"unit", "none"} THEN NoneValue
       ELSE IF ev.kind = "bool" THEN BoolValue(ev.b)
       ELSE IF ev.kind = "i8"
       THEN IntegerValue(IF ev.mag[1] = 128 THEN 0 - 128
                         ELSE IF ev.mag[1] = 255 THEN 0 - 1 ELSE ev.mag[1])
       ELSE IF ev.kind = "i32" THEN IntegerValue(small)
       ELSE IF ev.kind \in {"i64", "u64"}
       THEN IF InI32Range(ev.neg, ev.mag) THEN IntegerValue(small)
            ELSE DoubleValue(AsF64(ev.neg, ev.mag))
       ELSE IF ev.kind = "f64" THEN DoubleValue(ev.d)
       ELSE StringValue(ev.s)

\* C25: a call of a scalar method of the visitor, whatever its guard, issues
\* exactly one write, of the event's value, on the visitor's target (the
\* value replaces the slot's content, is appended to the list, or is set at
\* the pending key of the dict, and nothing else in the tree changes), and
\* returns Ok: no error is raised, no container is opened or closed, and the
\* guard is neither changed nor the reason of a failure
C25_Scalars ==
    [][\A c \in Calls :
          (pc[c] = "visit" /\ event[c].kind \in ScalarKinds /\ Moved(c)) =>
              LET target == visitor[c].container
                  node == ScalarOf(event[c])
                  was == NodeAt(sink[c], target.path)
              IN /\ OneWrite(c)
                 /\ LastOp(c) = SinkOp(target, node)
                 /\ sink'[c] =
                      (IF target.kind = "NewValue" THEN node
                       ELSE IF target.kind = "List"
                       THEN UpdateAt(sink[c], target.path,
                                     [was EXCEPT !.kids = Append(@, node)])
                       ELSE UpdateAt(sink[c], target.path, SetKey(was, target.key, node)))
                 /\ pc'[c] = Resume(stack[c])
                 /\ err'[c] = NoError
                 /\ stack'[c] = stack[c]
                 /\ visitor'[c] = visitor[c]]_vars

\* visit_i8(-128) was called on a visitor with no depth left whose target is
\* the key b of a dict inside a list: the dict has the entry b: -128
C25_Witness ==
    /\ event[1].kind = "i8"
    /\ event[1].mag[1] = 128
    /\ visitor[1] = ValueVisitor(Dict(<<1>>, <<Ch.b>>), 0)
    /\ pc[1] = "map"
    /\ ops[1] = <<SinkOp(Dict(<<1>>, <<Ch.b>>), IntegerValue(0 - 128))>>
    /\ sink[1].kids[1].keys = <<(<<Ch.a>>), <<Ch.b>>>>
    /\ sink[1].kids[1].kids[2] = IntegerValue(0 - 128)

\* the input without its first three bytes
DropThree(b) == [i \in 1..(Len(b) - 3) |-> b[i + 3]]

\* C26: once decode_json has configured the tokenizer, the bytes it gave it
\* are the input without its first three bytes when the input has at least
\* three bytes and these are EF BB BF, and the input itself otherwise; of two
\* BOMs at the front only the first is removed; and an input of fewer than
\* three bytes, like any other, does not make the prelude panic (a panic
\* comes only from a max_depth below 2)
C26_TokenizerInput ==
    \A c \in Calls :
        /\ pc[c] = "panic" => ~DepthInContract(c)
        /\ (Started(c) /\ pc[c] # "panic") =>
              LET b == json[c]
              IN /\ to_parse[c] =
                      (IF Len(b) >= 3 /\ b[1] = 239 /\ b[2] = 187 /\ b[3] = 191
                       THEN DropThree(b) ELSE b)
                 /\ Len(b) < 3 => to_parse[c] = b
                 /\ (Len(b) >= 6 /\ SubSeq(b, 1, 6) = UTF8_BOM \o UTF8_BOM) =>
                        /\ Len(to_parse[c]) = Len(b) - 3
                        /\ SubSeq(to_parse[c], 1, 3) = UTF8_BOM

\* of an input of two BOMs the tokenizer was given the second, and of the
\* two-byte input EF BB both bytes
C26_Witness ==
    /\ json[1] = UTF8_BOM
    /\ to_parse[1] = <<>>
    /\ json[2] = UTF8_BOM \o UTF8_BOM
    /\ to_parse[2] = UTF8_BOM
    /\ pc[2] = "err"
    /\ json[3] = <<>>

\* over the bytes b[lo..hi]: the brackets opened less those closed, and the
\* most that are open at once, by halves
RECURSIVE OpenRange(_, _, _)
OpenRange(b, lo, hi) ==
    IF lo > hi THEN [sum |-> 0, max |-> 0]
    ELSE IF lo = hi
    THEN IF b[lo] = Ch.lbrack \/ b[lo] = Ch.lbrace THEN [sum |-> 1, max |-> 1]
         ELSE IF b[lo] = Ch.rbrack \/ b[lo] = Ch.rbrace THEN [sum |-> 0 - 1, max |-> 0]
         ELSE [sum |-> 0, max |-> 0]
    ELSE LET l == OpenRange(b, lo, (lo + hi) \div 2)
             r == OpenRange(b, (lo + hi) \div 2 + 1, hi)
         IN [sum |-> l.sum + r.sum,
             max |-> IF l.sum + r.max > l.max THEN l.sum + r.max ELSE l.max]

\* the nesting depth of an input without brackets in its strings
DeepNest(b) == OpenRange(b, 1, Len(b)).max

\* C27: the tokenizer is configured with its own recursion limit disabled,
\* and the recursion-limit error is only ever raised by recurse() on a guard
\* of 0, in the loop of a container; so a call with max_depth D in contract
\* that fails on depth has at least D containers open, an input nested less
\* deep than D is never rejected for depth, and a well-formed input nested
\* deeper than 128 levels is accepted when max_depth is above its nesting
C27_OnlyOwnLimit ==
    /\ [][\A c \in Calls :
            (err'[c].msg = RecursionLimit /\ err[c].msg # RecursionLimit) =>
                /\ pc[c] \in {"seq", "map"}
                /\ Top(stack[c]).recursion_depth_check = 0
                /\ pc'[c] = "unwind"
                /\ DepthInContract(c) => Len(stack[c]) = options[c].max_depth]_vars
    /\ [](\A c \in Calls :
            /\ (DepthInContract(c) /\ FailedOnDepth(c)) =>
                  (options[c].max_depth >= 2 /\ DeepNest(json[c]) >= options[c].max_depth)
            /\ (/\ pc[c] \in Returned
                /\ json[c] \in DeepInputs
                /\ options[c].max_depth < 0 \/ options[c].max_depth > DeepNest(json[c])) =>
                   pc[c] = "ok")

\* MaxDeep lists one inside the other, more than the tokenizer's 128, were
\* decoded with max_depth = MaxDeep + 1
C27_Witness ==
    /\ json[1] = DeepList(MaxDeep)
    /\ DeepNest(json[1]) > TokenizerDepthLimit
    /\ options[1].max_depth = MaxDeep + 1
    /\ pc[1] = "ok"
    /\ Len(ops[1]) = MaxDeep + 1
\* C28 as stated: of two inputs that differ only in an empty list being an
\* empty dict at the same place, decoded with the same max_depth of at least
\* 2, either both succeed or both fail, and either both are rejected by the
\* recursion limit or neither is
C28_AsStated ==
    (/\ BothReturned
     /\ options[1] = options[2]
     /\ DepthInContract(1)) =>
        /\ (pc[1] = "ok") = (pc[2] = "ok")
        /\ FailedOnDepth(1) = FailedOnDepth(2)
\* C29: the out parameters error_line, error_column and error_message change
\* only in the step in which decode_json_from_cpp returns, and when it
\* returns true that step leaves all three as they were; so after a
\* successful call they hold what the caller passed in
C29_SuccessFrame ==
    [][\A c \in Calls :
          LET out == <<ffi[c].error_line, ffi[c].error_column, ffi[c].error_message>>
              out_after == <<ffi'[c].error_line, ffi'[c].error_column,
                             ffi'[c].error_message>>
          IN /\ out_after # out => (ffi[c].ret = "none" /\ ffi'[c].ret = "false")
             /\ ffi'[c].ret = "true" => out_after = out]_vars

\* a call that returned true with a decoded value in the slot, the line and
\* column still the caller's -7 and -9 and the buffer still the stale text
C29_Witness ==
    /\ ffi[1].ret = "true"
    /\ pc[1] = "ok"
    /\ sink[1] # Unset
    /\ ffi[1].error_line = 0 - 7
    /\ ffi[1].error_column = 0 - 9
    /\ ffi[1].error_message = <<Stale>>
\* the place of the first byte of b at or after i that is not a space, a
\* newline, a tab or a carriage return (Len(b) + 1 when there is none)
RECURSIVE FirstToken(_, _)
FirstToken(b, i) ==
    IF i > Len(b) THEN i
    ELSE IF b[i] \in {Ch.sp, Ch.nl, Ch.tab, Ch.cr} THEN FirstToken(b, i + 1)
    ELSE i

\* the bytes a JSON value can begin with
ValueStarts ==
    {Ch.lbrack, Ch.lbrace, Ch.quote, Ch.minus, Ch.n, Ch.t, Ch.f} \cup {Digit(d) : d \in 0..9}

\* the input of the call holds no first token, or one that begins no value:
\* after at most one BOM and any whitespace it ends, or goes on with a byte
\* that opens neither a value nor, where comments are allowed, a comment
NoFirstValue(c) ==
    LET b == IF StartsWithBom(json[c]) THEN SubSeq(json[c], 4, Len(json[c])) ELSE json[c]
        i == FirstToken(b, 1)
    IN \/ i > Len(b)
       \/ /\ b[i] \notin ValueStarts
          /\ b[i] = Ch.slash => ~options[c].allow_comments

\* the tokenizer has failed on its first read: no event was handed to the
\* root visitor
FailedAtFirstRead(c) ==
    /\ pc[c] = "unwind"
    /\ stack[c] = <<>>
    /\ event[c].kind = "error"
    /\ visitor[c].container = NewValue

\* C30: when the tokenizer fails before it has emitted a value event, no sink
\* operation has been issued and none follows: decode_json returns the
\* tokenizer's error as it is and the slot, unset before the call, is unset
\* after it; so it goes for every empty or blank input and every input whose
\* first token begins no value
C30_ErrorBeforeValue ==
    /\ [](\A c \in Calls :
            /\ FailedAtFirstRead(c) =>
                 /\ err[c] = event[c].err
                 /\ err[c] # NoError
                 /\ ops[c] = <<>>
                 /\ sink[c] = Unset
            /\ (NoFirstValue(c) /\ pc[c] \in {"unwind", "ok", "err"}) =>
                 /\ pc[c] # "ok"
                 /\ event[c].kind = "error"
                 /\ err[c] = event[c].err
                 /\ err[c].msg \in {"EOF while parsing a value", "expected value"}
                 /\ ops[c] = <<>>
                 /\ sink[c] = Unset)
    /\ [][\A c \in Calls :
            FailedAtFirstRead(c) =>
                /\ pc'[c] = "err"
                /\ err'[c] = err[c]
                /\ ops'[c] = <<>>
                /\ sink'[c] = Unset]_vars

\* the blank input (a space and a newline) was refused at its end, line 2
\* column 0, with nothing written: the slot is as it was before the call
C30_Witness ==
    /\ json[1] = InBlank
    /\ pc[1] = "err"
    /\ err[1].msg = "EOF while parsing a value"
    /\ err[1].line = 2
    /\ ops[1] = <<>>
    /\ sink[1] = Unset
====
